---- MODULE Spec2Model ----
(***************************************************************************)
(* Factory simulation: conveyor belt, two-handed workers, the Individual   *)
(* and Team strategies and the Simulation driver.                          *)
(*                                                                         *)
(* Two specifications share the definitions below.                         *)
(*   Spec     the library as its unit tests drive it: a belt, one pair of  *)
(*            workers and a strategy, with belt steps, step_assembly()     *)
(*            calls and strategy.act(worker, partner, [belt], station)     *)
(*            calls in any order.                                          *)
(*   SpecSim  the Simulation class: __init__, run, and run_step in its     *)
(*            three phases, with the belt argument run_step passes.        *)
(***************************************************************************)
EXTENDS Integers, Sequences, FiniteSets, TLC

\* ---------------------------------------------------------------- bounds
\* Spec: slots of the belt, largest assembly_time, belt steps per behaviour.
BeltLen == 2
MaxAssemblyTime == 2
MaxDraws == 4
\* SpecSim: largest belt_length / num_worker_pairs / steps handed to the
\* driver (the smallest is -1 for each).
MaxBeltLength == 10
MaxPairs == 11
MaxSteps == 3

\* ------------------------------------------------------------ components
A == "A"
B == "B"
C == "C"
None == "None"

Item == {A, B, C, None}

\* ---------------------------------------------------------------- Worker
\* Worker.__init__: both hands empty, no assembly running, nothing made.
NewWorker == [hand_left |-> None, hand_right |-> None, assembling_time_left |-> 0, products_made |-> 0]

is_assembling(w) == w.assembling_time_left > 0

is_full(w) == w.hand_left # None /\ w.hand_right # None

is_empty(w) == w.hand_left = None /\ w.hand_right = None

is_holding_product(w) == w.hand_left = C \/ w.hand_right = C

\* Mutant of can_assemble: any two full hands will do.
can_assemble_when_full(w) == is_full(w) /\ ~is_assembling(w)

can_assemble(w) == {w.hand_left, w.hand_right} = {A, B} /\ ~is_assembling(w)

\* `self.hand_left or self.hand_right`: None is falsy, a component is not.
held_component(w) == IF w.hand_left # None THEN w.hand_left ELSE w.hand_right

needs_component(w, component) ==
    IF is_full(w) \/ is_assembling(w) THEN FALSE
    ELSE IF w.hand_left = None /\ w.hand_right = None THEN component \in {A, B}
    ELSE IF held_component(w) = A /\ component = B THEN TRUE
    ELSE IF held_component(w) = B /\ component = A THEN TRUE
    ELSE FALSE

\* needs() as a set; the list built from it has either iteration order.
needs(w) ==
    IF is_full(w) \/ is_assembling(w) THEN {}
    ELSE {A, B} \ ({w.hand_left, w.hand_right} \ {None})

\* The orders list(set) can yield for the set s.
needs_orders(s) ==
    IF s = {A, B} THEN {<<A, B>>, <<B, A>>}
    ELSE IF s = {A} THEN {<<A>>}
    ELSE IF s = {B} THEN {<<B>>}
    ELSE {<<>>}

start_assembly_restart(w, assembly_time) ==
    IF {w.hand_left, w.hand_right} = {A, B} THEN [w EXCEPT !.assembling_time_left = assembly_time] ELSE w

start_assembly(w, assembly_time) ==
    IF can_assemble(w) THEN [w EXCEPT !.assembling_time_left = assembly_time] ELSE w

\* Mutant of step_assembly: the product appears one call early.
step_assembly_early(w) ==
    IF is_assembling(w)
    THEN IF w.assembling_time_left - 1 <= 1
         THEN [w EXCEPT !.assembling_time_left = 0, !.hand_left = C, !.hand_right = None,
                        !.products_made = w.products_made + 1]
         ELSE [w EXCEPT !.assembling_time_left = w.assembling_time_left - 1]
    ELSE w

step_assembly(w) ==
    IF is_assembling(w)
    THEN IF w.assembling_time_left - 1 = 0
         THEN [w EXCEPT !.assembling_time_left = 0, !.hand_left = C, !.hand_right = None,
                        !.products_made = w.products_made + 1]
         ELSE [w EXCEPT !.assembling_time_left = w.assembling_time_left - 1]
    ELSE w

\* Mutant of pickup: always writes the left hand.
pickup_left_only(w, item) == [w EXCEPT !.hand_left = item]

\* pickup raises Exception("Both hands are full") exactly when pickup_raises.
pickup_raises(w) == w.hand_left # None /\ w.hand_right # None

pickup_right_first(w, item) ==
    IF w.hand_right = None THEN [w EXCEPT !.hand_right = item]
    ELSE IF w.hand_left = None THEN [w EXCEPT !.hand_left = item]
    ELSE w

pickup(w, item) ==
    IF w.hand_left = None THEN [w EXCEPT !.hand_left = item]
    ELSE IF w.hand_right = None THEN [w EXCEPT !.hand_right = item]
    ELSE w

place_product_right_first(w) ==
    IF is_holding_product(w)
    THEN IF w.hand_right = C THEN [w EXCEPT !.hand_right = None] ELSE [w EXCEPT !.hand_left = None]
    ELSE w

place_product(w) ==
    IF is_holding_product(w)
    THEN IF w.hand_left = C THEN [w EXCEPT !.hand_left = None] ELSE [w EXCEPT !.hand_right = None]
    ELSE w

\* place_product(): returns the product C, or None when no hand holds one.
place_product_returns(w) == IF is_holding_product(w) THEN C ELSE None

\* ---------------------------------------------------------- ConveyorBelt
\* A belt's slots are a function on 0..length-1, as the Python list.
BeltLength(slots) == Cardinality(DOMAIN slots)

\* ConveyorBelt.__init__: [None] * length is the empty list for length <= 0.
NewSlots(length) == [i \in 0..(length - 1) |-> None]

\* step(): slots[-1] raises IndexError on an empty list.
step_raises(slots) == BeltLength(slots) = 0

last_item(slots) == slots[BeltLength(slots) - 1]

step_slots(slots) == [i \in DOMAIN slots |-> IF i = 0 THEN None ELSE slots[i - 1]]

step_missed_a_any_component(slots, missed_a) ==
    IF last_item(slots) \in {A, B} THEN missed_a + 1 ELSE missed_a

step_missed_a(slots, missed_a) == IF last_item(slots) = A THEN missed_a + 1 ELSE missed_a

step_missed_b_counts_product(slots, missed_b) ==
    IF last_item(slots) \in {B, C} THEN missed_b + 1 ELSE missed_b

step_missed_b(slots, missed_b) == IF last_item(slots) = B THEN missed_b + 1 ELSE missed_b

step_returns_with_product(slots) == last_item(slots)

\* step(): return last_item if last_item != C else None.
step_returns(slots) == IF last_item(slots) # C THEN last_item(slots) ELSE None

step_with_random_item_no_shift(slots, draw) == [slots EXCEPT ![0] = draw]

\* step_with_random_item(): step(), then the head is the draw (A, B or None).
step_with_random_item_slots(slots, draw) == [step_slots(slots) EXCEPT ![0] = draw]

Draws == {A, B, None}

push_item_if_empty(slots, item) == IF slots[0] = None THEN [slots EXCEPT ![0] = item] ELSE slots

\* push_item(item): self.slots[0] = item.
push_item(slots, item) == [slots EXCEPT ![0] = item]

\* ------------------------------------------------------------ strategies
\* The `belts` argument of act(): a list of belts (iterable, as the unit tests
\* pass it) or a single ConveyorBelt object (not iterable, no __iter__).
ListOfBelts(seq) == [iterable |-> TRUE, belts |-> seq]

BeltObject(slots) == [iterable |-> FALSE, belts |-> <<slots>>]

\* Outcome of a call: the objects as the call left them, what it raised and
\* the worker method it invoked ("none" when it committed no action).
Outcome(workers, belts, raised, did) ==
    [workers |-> workers, belts |-> belts, raised |-> raised, did |-> did]

RECURSIVE Flatten(_)
Flatten(seqs) == IF seqs = <<>> THEN <<>> ELSE Head(seqs) \o Flatten(Tail(seqs))

IndexSeq(n) == [k \in 1..n |-> k - 1]

Abs(x) == IF x < 0 THEN -x ELSE x

\* enumerate(belts) x enumerate(belt.slots), in order, kept where the slot
\* holds one of `items`: <<belt index, slot index>>, both 0-based.
Places(belts, items) ==
    Flatten([b \in 1..Len(belts) |->
        LET sel == SelectSeq(IndexSeq(BeltLength(belts[b])), LAMBDA s : belts[b][s] \in items)
        IN  [k \in 1..Len(sel) |-> <<b - 1, sel[k]>>]])

SetSlot(belts, b, s, item) == [belts EXCEPT ![b + 1] = [@ EXCEPT ![s] = item]]

\* Priority 4 of IndividualStrategy.act: for component in needed, for belt in
\* belts: the (component, belt index) pairs in the order they are examined.
PickupScan(belts, order) ==
    Flatten([c \in 1..Len(order) |-> [b \in 1..Len(belts) |-> <<order[c], b - 1>>]])

\* Mutant of ScanStops: any component at the station ends the scan.
ScanStops_any_component(belts, station_index, pair) ==
    belts[pair[2] + 1][station_index] \in {A, B}

ScanStops_head(belts, station_index, pair) == belts[pair[2] + 1][0] = pair[1]

\* First examined pair that ends the scan: a match, or an index out of range.
ScanStops(belts, station_index, pair) ==
    \/ station_index \notin DOMAIN belts[pair[2] + 1]
    \/ belts[pair[2] + 1][station_index] = pair[1]

\* Priorities 2-4 of IndividualStrategy.act (reached when no product was placed).
IndividualStrategy_rest(workers, i, arg, station_index, order, assembly_time) ==
    LET worker == workers[i]
        belts == arg.belts
        scan == SelectSeq(PickupScan(belts, order), LAMBDA pr : ScanStops(belts, station_index, pr))
    IN  IF is_assembling(worker)
        THEN Outcome([workers EXCEPT ![i] = step_assembly(worker)], belts, "none", "step_assembly")
        ELSE IF can_assemble(worker)
        THEN Outcome([workers EXCEPT ![i] = start_assembly(worker, assembly_time)], belts, "none", "start_assembly")
        ELSE IF ~is_full(worker)
        THEN IF order = <<>> THEN Outcome(workers, belts, "none", "none")
             ELSE IF ~arg.iterable THEN Outcome(workers, belts, "TypeError", "none")
             ELSE IF scan = <<>> THEN Outcome(workers, belts, "none", "none")
             ELSE IF station_index \notin DOMAIN belts[scan[1][2] + 1]
             THEN Outcome(workers, belts, "IndexError", "none")
             ELSE IF pickup_raises(worker) THEN Outcome(workers, belts, "Exception", "pickup")
             ELSE Outcome([workers EXCEPT ![i] = pickup(worker, scan[1][1])],
                          SetSlot(belts, scan[1][2], station_index, None), "none", "pickup")
        ELSE Outcome(workers, belts, "none", "none")

\* IndividualStrategy.act(worker, partner, belts, station_index); `order` is
\* the iteration order of the list needs() returned.
\* Mutant of IndividualStrategy_act: the product goes to the station slot only.
IndividualStrategy_act_station(workers, i, p, arg, station_index, order, assembly_time) ==
    LET worker == workers[i]
        belts == arg.belts
    IN  IF is_holding_product(worker) /\ arg.iterable /\ belts[1][station_index] = None
        THEN Outcome([workers EXCEPT ![i] = place_product(worker)],
                     SetSlot(belts, 0, station_index, C), "none", "place_product")
        ELSE IndividualStrategy_rest(workers, i, arg, station_index, order, assembly_time)

\* Mutant of IndividualStrategy_act: no return after the placement.
IndividualStrategy_act_fallthrough(workers, i, p, arg, station_index, order, assembly_time) ==
    LET worker == workers[i]
        belts == arg.belts
        empties == Places(belts, {None})
        placed == [workers EXCEPT ![i] = place_product(worker)]
    IN  IF is_holding_product(worker) /\ arg.iterable /\ empties # <<>>
        THEN LET rest == IndividualStrategy_rest(placed,
                             i, [arg EXCEPT !.belts = SetSlot(belts, empties[1][1], empties[1][2], C)],
                             station_index, CHOOSE o \in needs_orders(needs(placed[i])) : TRUE,
                             assembly_time)
             IN  Outcome(rest.workers, rest.belts, rest.raised, "place_product")
        ELSE IndividualStrategy_rest(workers, i, arg, station_index, order, assembly_time)

IndividualStrategy_act(workers, i, p, arg, station_index, order, assembly_time) ==
    LET worker == workers[i]
        belts == arg.belts
        empties == Places(belts, {None})
    IN  IF is_holding_product(worker)
        THEN IF ~arg.iterable THEN Outcome(workers, belts, "TypeError", "none")
             ELSE IF empties # <<>>
             THEN Outcome([workers EXCEPT ![i] = place_product(worker)],
                          SetSlot(belts, empties[1][1], empties[1][2], C), "none", "place_product")
             ELSE IndividualStrategy_rest(workers, i, arg, station_index, order, assembly_time)
        ELSE IndividualStrategy_rest(workers, i, arg, station_index, order, assembly_time)

\* Scores of TeamStrategy._get_best_action.
ScorePlace == 100
ScoreStepAssembly == 90
ScoreStartAssembly == 80
ScoreGive == 70
ScorePickupBase == 60
ScoreDistancePenalty == 5
ScoreOwnNeedBonus == 5

Action(score, type, component, belt, slot) ==
    [score |-> score, type |-> type, component |-> component, belt |-> belt, slot |-> slot]

\* Action 5: one pickup candidate per belt slot holding A or B that the worker
\* or, failing that, the partner needs.
PickupActions(worker, partner, belts, station_index) ==
    LET places == Places(belts, {A, B})
        useful == SelectSeq(places, LAMBDA pl :
                      \/ needs_component(worker, belts[pl[1] + 1][pl[2]])
                      \/ needs_component(partner, belts[pl[1] + 1][pl[2]]))
    IN  [k \in 1..Len(useful) |->
            LET component == belts[useful[k][1] + 1][useful[k][2]]
                base_score == ScorePickupBase - Abs(station_index - useful[k][2]) * ScoreDistancePenalty
            IN  Action(IF needs_component(worker, component) THEN base_score + ScoreOwnNeedBonus ELSE base_score,
                       "pickup", component, useful[k][1], useful[k][2])]

\* Mutant of team_pickup_guard: the free-hand test before Action 5 is missing.
team_pickup_unguarded(worker) == TRUE

\* `if not worker.is_full():` before Action 5.
team_pickup_guard(worker) == ~is_full(worker)

\* possible_actions, in the order _get_best_action appends them.
possible_actions(worker, partner, belts, station_index) ==
       (IF is_holding_product(worker)
        THEN LET empties == Places(belts, {None})
             IN  [k \in 1..Len(empties) |-> Action(ScorePlace, "place_product", None, empties[k][1], empties[k][2])]
        ELSE <<>>)
    \o (IF is_assembling(worker) THEN <<Action(ScoreStepAssembly, "step_assembly", None, 0, 0)>> ELSE <<>>)
    \o (IF can_assemble(worker) THEN <<Action(ScoreStartAssembly, "start_assembly", None, 0, 0)>> ELSE <<>>)
    \o (IF /\ ~is_full(partner)
           /\ worker.hand_left # None
           /\ worker.hand_left = worker.hand_right
           /\ needs_component(partner, worker.hand_right)
        THEN <<Action(ScoreGive, "give_component", worker.hand_right, 0, 0)>> ELSE <<>>)
    \o (IF team_pickup_guard(worker) THEN PickupActions(worker, partner, belts, station_index) ELSE <<>>)

\* enumerate(belts) is reached when the worker holds a product or has a free hand.
get_best_action_raises(worker, arg) ==
    ~arg.iterable /\ (is_holding_product(worker) \/ team_pickup_guard(worker))

\* sort(key=score, reverse=True) is stable: the first appended action of the
\* highest score is returned. <<>> stands for None.
get_best_action(worker, partner, belts, station_index) ==
    LET acts == possible_actions(worker, partner, belts, station_index)
        best == SelectSeq(acts, LAMBDA a : \A k \in 1..Len(acts) : acts[k].score <= a.score)
    IN  IF acts = <<>> THEN <<>> ELSE <<best[1]>>

\* TeamStrategy.act(worker, partner, belts, station_index).
TeamStrategy_act(workers, i, p, arg, station_index, assembly_time) ==
    LET worker == workers[i]
        partner == workers[p]
        belts == arg.belts
        action_details == get_best_action(worker, partner, belts, station_index)
        a == action_details[1]
    IN  IF get_best_action_raises(worker, arg) THEN Outcome(workers, belts, "TypeError", "none")
        ELSE IF action_details = <<>> THEN Outcome(workers, belts, "none", "none")
        ELSE IF a.type = "place_product"
        THEN Outcome([workers EXCEPT ![i] = place_product(worker)], SetSlot(belts, a.belt, a.slot, C), "none", "place_product")
        ELSE IF a.type = "step_assembly"
        THEN Outcome([workers EXCEPT ![i] = step_assembly(worker)], belts, "none", "step_assembly")
        ELSE IF a.type = "start_assembly"
        THEN Outcome([workers EXCEPT ![i] = start_assembly(worker, assembly_time)], belts, "none", "start_assembly")
        ELSE IF a.type = "give_component"
        THEN IF pickup_raises(partner)
             THEN Outcome([workers EXCEPT ![i] = [worker EXCEPT !.hand_right = None]], belts, "Exception", "give_component")
             ELSE Outcome([workers EXCEPT ![i] = [worker EXCEPT !.hand_right = None],
                                          ![p] = pickup(partner, a.component)], belts, "none", "give_component")
        ELSE IF pickup_raises(worker) THEN Outcome(workers, belts, "Exception", "pickup")
        ELSE Outcome([workers EXCEPT ![i] = pickup(worker, a.component)],
                     SetSlot(belts, a.belt, a.slot, None), "none", "pickup")

\* run_step: partner_idx = i + 1 if i % 2 == 0 else i - 1; station_index = i // 2.
partner_idx(i) == IF i % 2 = 0 THEN i + 1 ELSE i - 1

station_of(i) == i \div 2

\* ------------------------------------------------------ HiveMindStrategy
\* HiveMindStrategy is imported by the tests but defined in no source file;
\* hive_act(workers, belts) is modelled after the specification: every legal
\* action of every non-assembling worker is scored on the documented scale,
\* in roster order, and only the first action of the highest score is done.
HiveScorePlace == 100
HiveScoreStartAssembly == 90
HiveScoreGive == 80
HiveScorePickupBase == 70

HiveAction(i, action) == [worker |-> i, action |-> action]

\* The pickup of the component at place pl by worker number i.
HivePickupAction(worker, i, belts, pl) ==
    LET component == belts[pl[1] + 1][pl[2]]
        base_score == HiveScorePickupBase - Abs(station_of(i) - pl[2]) * ScoreDistancePenalty
    IN  Action(IF needs_component(worker, component) THEN base_score + ScoreOwnNeedBonus ELSE base_score,
               "pickup", component, pl[1], pl[2])

\* The places holding a component the worker or its partner needs.
HiveUseful(worker, partner, belts) ==
    SelectSeq(Places(belts, {A, B}), LAMBDA pl :
        \/ needs_component(worker, belts[pl[1] + 1][pl[2]])
        \/ needs_component(partner, belts[pl[1] + 1][pl[2]]))

HivePickupsFrom(worker, i, belts, useful) ==
    [k \in 1..Len(useful) |-> HivePickupAction(worker, i, belts, useful[k])]

HivePickups(workers, i, belts) ==
    HivePickupsFrom(workers[i], i, belts, HiveUseful(workers[i], workers[partner_idx(i)], belts))

HivePlaceActions(empties) ==
    [k \in 1..Len(empties) |-> Action(HiveScorePlace, "place_product", None, empties[k][1], empties[k][2])]

\* The legal actions of a worker that is not assembling, in the order place, start, give, pickup.
HiveOwnActions(worker, partner, workers, i, belts) ==
       (IF is_holding_product(worker) THEN HivePlaceActions(Places(belts, {None})) ELSE <<>>)
    \o (IF can_assemble(worker) THEN <<Action(HiveScoreStartAssembly, "start_assembly", None, 0, 0)>>
        ELSE <<>>)
    \o (IF /\ ~is_full(partner)
           /\ worker.hand_left # None
           /\ worker.hand_left = worker.hand_right
           /\ needs_component(partner, worker.hand_right)
        THEN <<Action(HiveScoreGive, "give_component", worker.hand_right, 0, 0)>> ELSE <<>>)
    \o (IF ~is_full(worker) THEN HivePickups(workers, i, belts) ELSE <<>>)

HiveTag(i, own) == [k \in 1..Len(own) |-> HiveAction(i, own[k])]

\* The legal actions of worker i, none while it is assembling.
HiveWorkerActions(workers, i, belts) ==
    IF is_assembling(workers[i]) THEN <<>>
    ELSE HiveTag(i, HiveOwnActions(workers[i], workers[partner_idx(i)], workers, i, belts))

HiveActions(workers, belts) ==
    Flatten([k \in 1..Cardinality(DOMAIN workers) |-> HiveWorkerActions(workers, k - 1, belts)])

\* The first action of the highest score.
HiveBest(acts) ==
    SelectSeq(acts, LAMBDA a : \A k \in 1..Len(acts) : acts[k].action.score <= a.action.score)[1]

\* The action a, applied by worker i.
hive_apply(workers, belts, assembly_time, i, a) ==
    IF a.type = "place_product"
    THEN [workers |-> [workers EXCEPT ![i] = place_product(workers[i])],
          belts |-> SetSlot(belts, a.belt, a.slot, C), did |-> a.type, worker |-> i]
    ELSE IF a.type = "start_assembly"
    THEN [workers |-> [workers EXCEPT ![i] = start_assembly(workers[i], assembly_time)],
          belts |-> belts, did |-> a.type, worker |-> i]
    ELSE IF a.type = "give_component"
    THEN [workers |-> [workers EXCEPT ![i] = [workers[i] EXCEPT !.hand_right = None],
                                      ![partner_idx(i)] = pickup(workers[partner_idx(i)], a.component)],
          belts |-> belts, did |-> a.type, worker |-> i]
    ELSE [workers |-> [workers EXCEPT ![i] = pickup(workers[i], a.component)],
          belts |-> SetSlot(belts, a.belt, a.slot, None), did |-> a.type, worker |-> i]

hive_commit(workers, belts, assembly_time, best) ==
    hive_apply(workers, belts, assembly_time, best.worker, best.action)

hive_decide(workers, belts, assembly_time, acts) ==
    IF acts = <<>> THEN [workers |-> workers, belts |-> belts, did |-> "none", worker |-> 0]
    ELSE hive_commit(workers, belts, assembly_time, HiveBest(acts))

\* hive_act(workers, belts): the first action of the highest score, applied.
hive_act(workers, belts, assembly_time) ==
    hive_decide(workers, belts, assembly_time, HiveActions(workers, belts))

\* ----------------------------------------------------------------- state
VARIABLES
    slots,             \* belt.slots
    missed_a,          \* belt.missed_a
    missed_b,          \* belt.missed_b
    workers,           \* the Worker objects, by index
    num_worker_pairs,
    belt_length,
    strategy_name,
    assembly_time,
    steps,             \* argument of Simulation.run
    status,            \* "new", "constructed", "running", "done" or the exception that ended the program
    pc,                \* phase of run_step about to run: "belt", "timers", "act"
    tick,              \* completed run_step calls
    unit,              \* act phase: index of the next loop iteration
    phases,            \* phases of the current run_step already entered, in order
    drawn_a,           \* history: A's drawn onto the head
    drawn_b,           \* history: B's drawn onto the head
    draws,             \* history: belt steps taken
    last,              \* history: the call that produced this state
    since_start        \* history: step_assembly calls since the worker's latest assembly start (-1: none yet)

\* The threaded buffer of src/conveyor: ConveyorBelt, Producer, Consumer.
VARIABLES
    capacity,            \* conveyor.ConveyorBelt.capacity
    items,               \* conveyor.ConveyorBelt.items, the deque, head first
    lock,                \* conveyor.ConveyorBelt.lock: the thread holding it, 0 when free
    filled_slots,        \* permits of the semaphore filled_slots
    empty_slots,         \* permits of the semaphore empty_slots
    thread_pc,           \* where each Producer / Consumer thread is in run()
    item_held,           \* the local variable `item` of each thread's run()
    stop_event,          \* Producer._stop_event / Consumer._stop_event
    items_produced,      \* Producer.items_produced
    items_consumed,      \* Consumer.items_consumed
    item_serial_counter, \* producer.item_serial_counter: the serial handed out last
    returned,            \* history: what each thread's latest put / take returned
    taken                \* history: the items popped, in order

buf_vars == <<capacity, items, lock, filled_slots, empty_slots, thread_pc, item_held, stop_event,
              items_produced, items_consumed, item_serial_counter, returned, taken>>

sim_vars == <<slots, missed_a, missed_b, workers, num_worker_pairs, belt_length, strategy_name,
              assembly_time, steps, status, pc, tick, unit, phases, drawn_a, drawn_b, draws, last, since_start>>

\* The second belt of a two-belt strategy call, the log of a belt's calls, and the main
\* thread of conveyor_simulation.py.
VARIABLES
    slots_b,             \* the slots of a second ConveyorBelt, <<>> when there is none
    calls,               \* history: the push_item and step calls made on the belt, in order
    main_pc,             \* conveyor_simulation.main: where the main thread is, "idle" outside it
    released,            \* conveyor_simulation.main: iterations done of the release loop at main_pc
    appended             \* history: the items appended to the threaded belt, in order

ext_vars == <<slots_b, calls, main_pc, released, appended>>

vars == <<sim_vars, buf_vars, ext_vars>>

\* No second belt, no call log, no conveyor_simulation.main.
ExtIdle ==
    /\ slots_b = <<>>
    /\ calls = <<>>
    /\ main_pc = "idle"
    /\ released = 0
    /\ appended = <<>>

\* No threaded buffer exists.
BufIdle ==
    /\ capacity = 0
    /\ items = <<>>
    /\ lock = 0
    /\ filled_slots = 0
    /\ empty_slots = 0
    /\ thread_pc = <<>>
    /\ item_held = <<>>
    /\ stop_event = <<>>
    /\ items_produced = <<>>
    /\ items_consumed = <<>>
    /\ item_serial_counter = 0
    /\ returned = <<>>
    /\ taken = <<>>

belt_vars == <<slots, missed_a, missed_b>>
config_vars == <<num_worker_pairs, belt_length, strategy_name, assembly_time>>
driver_vars == <<steps, status, pc, tick, unit, phases>>

WorkerIds == DOMAIN workers

\* The latest call: the operation, the worker it was made on (or for), the
\* action it committed, the exception it raised, the value it returned, the
\* station index and the item it was given.
CallFull(op, w, did, raised, ret, station, item) ==
    [op |-> op, w |-> w, did |-> did, raised |-> raised, ret |-> ret, station |-> station,
     item |-> item]

Call(op, w, did, raised) == CallFull(op, w, did, raised, None, station_of(w), None)

\* strategy.act for the configured strategy; the Individual strategy's result
\* depends on the order of the list needs() returned.
StrategyOutcomes(ws, i, arg) ==
    IF strategy_name = "individual"
    THEN {IndividualStrategy_act(ws, i, partner_idx(i), arg, station_of(i), order, assembly_time) :
              order \in needs_orders(needs(ws[i]))}
    ELSE {TeamStrategy_act(ws, i, partner_idx(i), arg, station_of(i), assembly_time)}

\* step_assembly calls since the latest start, after a call that did `did`.
CountSteps(n, did) ==
    IF did = "start_assembly" THEN 0
    ELSE IF did = "step_assembly" /\ n >= 0 /\ n < assembly_time THEN n + 1
    ELSE n

\* ------------------------------------------------- Spec: the library API
TestPairs == 1

Init ==
    /\ belt_length = BeltLen
    /\ num_worker_pairs = TestPairs
    /\ strategy_name \in {"individual", "team"}
    /\ assembly_time \in 1..MaxAssemblyTime
    /\ slots = NewSlots(belt_length)
    /\ missed_a = 0
    /\ missed_b = 0
    /\ workers = [i \in 0..(num_worker_pairs * 2 - 1) |-> NewWorker]
    /\ steps = 0
    /\ status = "test"
    /\ pc = "none"
    /\ tick = 0
    /\ unit = 0
    /\ phases = <<>>
    /\ drawn_a = 0
    /\ drawn_b = 0
    /\ draws = 0
    /\ last = Call("init", 0, "none", "none")
    /\ since_start = [i \in 0..(num_worker_pairs * 2 - 1) |-> -1]
    /\ BufIdle
    /\ ExtIdle

\* belt.step_with_random_item()
BeltStep(draw) ==
    /\ last.raised = "none"
    /\ draws < MaxDraws
    /\ slots' = step_with_random_item_slots(slots, draw)
    /\ missed_a' = step_missed_a(slots, missed_a)
    /\ missed_b' = step_missed_b(slots, missed_b)
    /\ drawn_a' = IF draw = A THEN drawn_a + 1 ELSE drawn_a
    /\ drawn_b' = IF draw = B THEN drawn_b + 1 ELSE drawn_b
    /\ draws' = draws + 1
    /\ last' = Call("step_with_random_item", 0, "none", "none")
    /\ UNCHANGED <<workers, since_start, config_vars, driver_vars>>
    /\ UNCHANGED <<buf_vars, ext_vars>>

\* workers[w].step_assembly(), called directly
StepAssembly(w) ==
    /\ last.raised = "none"
    /\ workers' = [workers EXCEPT ![w] = step_assembly(workers[w])]
    /\ since_start' = [since_start EXCEPT ![w] = CountSteps(@, "step_assembly")]
    /\ last' = Call("step_assembly", w, "step_assembly", "none")
    /\ UNCHANGED <<belt_vars, drawn_a, drawn_b, draws, config_vars, driver_vars>>
    /\ UNCHANGED <<buf_vars, ext_vars>>

\* strategy.act(workers[w], workers[partner], [belt], station)
Act(w) ==
    /\ last.raised = "none"
    /\ \E out \in StrategyOutcomes(workers, w, ListOfBelts(<<slots>>)) :
        /\ workers' = out.workers
        /\ slots' = out.belts[1]
        /\ since_start' = [since_start EXCEPT ![w] = CountSteps(@, out.did)]
        /\ last' = Call("act", w, out.did, out.raised)
    /\ UNCHANGED <<missed_a, missed_b, drawn_a, drawn_b, draws, config_vars, driver_vars>>
    /\ UNCHANGED <<buf_vars, ext_vars>>

Next ==
    \/ \E draw \in Draws : BeltStep(draw)
    \/ \E w \in WorkerIds : StepAssembly(w)
    \/ \E w \in WorkerIds : Act(w)

Spec == Init /\ [][Next]_vars

\* Components of type x on the belt, in hands, and consumed in finished products.
OnBelt(x) == Cardinality({i \in DOMAIN slots : slots[i] = x})

InHands(x) ==
    Cardinality({i \in WorkerIds : workers[i].hand_left = x})
    + Cardinality({i \in WorkerIds : workers[i].hand_right = x})

RECURSIVE SumProducts(_)
SumProducts(ids) ==
    IF ids = {} THEN 0
    ELSE LET i == CHOOSE j \in ids : TRUE IN workers[i].products_made + SumProducts(ids \ {i})

TypeOK ==
    /\ \A i \in DOMAIN slots : slots[i] \in Item
    /\ \A i \in WorkerIds : workers[i].hand_left \in Item /\ workers[i].hand_right \in Item

\* ------------------------------------------- SpecSim: the Simulation class
StrategyNames == {"individual", "team", "hivemind", "other"}

\* Mutant of init_raises: the size check counts workers, not pairs.
init_raises_workers(pairs, length, name) ==
    \/ pairs * 2 > length
    \/ name \notin {"individual", "team"}

\* Mutant of init_raises: the size check is off by one.
init_raises_strict(pairs, length, name) ==
    \/ pairs >= length
    \/ name \notin {"individual", "team"}

\* Simulation.__init__ raises ValueError for these arguments.
init_raises(pairs, length, name) ==
    \/ pairs > length
    \/ name \notin {"individual", "team"}

\* Mutant of next_phase: the strategies act before the timers advance.
next_phase_act_first(ph) ==
    IF ph = "belt" THEN "act"
    ELSE IF ph = "act" THEN "timers"
    ELSE "belt"

\* The phase of run_step that follows phase ph.
next_phase(ph) ==
    IF ph = "belt" THEN "timers"
    ELSE IF ph = "timers" THEN "act"
    ELSE "belt"

FirstPhase == "belt"

\* No Simulation object exists.
NoSimulation ==
    /\ status = "new"
    /\ belt_length = 0
    /\ num_worker_pairs = 0
    /\ strategy_name = "none"
    /\ assembly_time = 0
    /\ slots = NewSlots(0)
    /\ missed_a = 0
    /\ missed_b = 0
    /\ workers = [i \in {} |-> NewWorker]
    /\ steps = 0
    /\ pc = "none"
    /\ tick = 0
    /\ unit = 0
    /\ phases = <<>>
    /\ drawn_a = 0
    /\ drawn_b = 0
    /\ draws = 0
    /\ last = Call("init", 0, "none", "none")
    /\ since_start = [i \in {} |-> -1]

InitSim == NoSimulation /\ BufIdle /\ ExtIdle

\* Simulation(num_worker_pairs, belt_length, strategy_name, assembly_time)
Construct(pairs, length, name, time) ==
    /\ status = "new"
    /\ num_worker_pairs' = pairs
    /\ belt_length' = length
    /\ strategy_name' = name
    /\ assembly_time' = time
    /\ IF init_raises(pairs, length, name)
       THEN /\ status' = "ValueError"
            /\ UNCHANGED <<slots, workers, since_start>>
       ELSE /\ status' = "constructed"
            /\ slots' = NewSlots(length)
            /\ workers' = [i \in 0..(pairs * 2 - 1) |-> NewWorker]
            /\ since_start' = [i \in 0..(pairs * 2 - 1) |-> -1]
    /\ last' = Call("__init__", 0, "none", IF init_raises(pairs, length, name) THEN "ValueError" ELSE "none")
    /\ UNCHANGED <<missed_a, missed_b, steps, pc, tick, unit, phases, drawn_a, drawn_b, draws>>
    /\ UNCHANGED <<buf_vars, ext_vars>>

\* simulation.run(n): enters the loop `for step in range(n)`
Run(n) ==
    /\ status = "constructed"
    /\ status' = "running"
    /\ steps' = n
    /\ pc' = FirstPhase
    /\ tick' = 0
    /\ last' = Call("run", 0, "none", "none")
    /\ UNCHANGED <<belt_vars, workers, since_start, config_vars, unit, phases, drawn_a, drawn_b, draws>>
    /\ UNCHANGED <<buf_vars, ext_vars>>

\* run_step, first phase: self.belt.step_with_random_item()
RunStepBelt(draw) ==
    /\ status = "running"
    /\ pc = "belt"
    /\ IF pc = FirstPhase THEN tick < steps ELSE TRUE
    /\ phases' = IF pc = FirstPhase THEN <<"belt">> ELSE Append(phases, "belt")
    /\ IF step_raises(slots)
       THEN /\ status' = "IndexError"
            /\ last' = Call("step_with_random_item", 0, "none", "IndexError")
            /\ UNCHANGED <<belt_vars, drawn_a, drawn_b, draws, pc>>
       ELSE /\ slots' = step_with_random_item_slots(slots, draw)
            /\ missed_a' = step_missed_a(slots, missed_a)
            /\ missed_b' = step_missed_b(slots, missed_b)
            /\ drawn_a' = IF draw = A THEN drawn_a + 1 ELSE drawn_a
            /\ drawn_b' = IF draw = B THEN drawn_b + 1 ELSE drawn_b
            /\ draws' = draws + 1
            /\ pc' = next_phase("belt")
            /\ last' = Call("step_with_random_item", 0, "none", "none")
            /\ UNCHANGED status
    /\ UNCHANGED <<workers, since_start, config_vars, steps, tick, unit>>
    /\ UNCHANGED <<buf_vars, ext_vars>>

\* run_step, second phase: every assembling worker steps its assembly
RunStepTimers ==
    /\ status = "running"
    /\ pc = "timers"
    /\ IF pc = FirstPhase THEN tick < steps ELSE TRUE
    /\ phases' = IF pc = FirstPhase THEN <<"timers">> ELSE Append(phases, "timers")
    /\ workers' = [i \in WorkerIds |-> IF is_assembling(workers[i]) THEN step_assembly(workers[i]) ELSE workers[i]]
    /\ since_start' = [i \in WorkerIds |->
                          IF is_assembling(workers[i]) THEN CountSteps(since_start[i], "step_assembly")
                          ELSE since_start[i]]
    /\ pc' = next_phase("timers")
    /\ unit' = 0
    /\ last' = Call("timers", 0, "none", "none")
    /\ UNCHANGED <<belt_vars, config_vars, steps, status, tick, drawn_a, drawn_b, draws>>
    /\ UNCHANGED <<buf_vars, ext_vars>>

EnterAct == IF phases # <<>> /\ phases[Len(phases)] = "act" THEN phases
            ELSE IF pc = FirstPhase THEN <<"act">> ELSE Append(phases, "act")

\* run_step, third phase, one strategy.act call: the Individual loop calls
\* act(workers[i], partner, self.belt, i // 2) for i in range(2 * pairs); the
\* Team loop calls act(worker1, worker2, ...), act(worker2, worker1, ...) per
\* pair, which is the same sequence of calls.
RunStepAct ==
    /\ status = "running"
    /\ pc = "act"
    /\ unit < num_worker_pairs * 2
    /\ phases' = EnterAct
    /\ \E out \in StrategyOutcomes(workers, unit, BeltObject(slots)) :
        /\ workers' = out.workers
        /\ slots' = out.belts[1]
        /\ since_start' = [since_start EXCEPT ![unit] = CountSteps(@, out.did)]
        /\ last' = Call("act", unit, out.did, out.raised)
        /\ status' = IF out.raised = "none" THEN status ELSE out.raised
        /\ unit' = IF out.raised = "none" THEN unit + 1 ELSE unit
    /\ UNCHANGED <<missed_a, missed_b, config_vars, steps, pc, tick, drawn_a, drawn_b, draws>>
    /\ UNCHANGED <<buf_vars, ext_vars>>

\* run_step returns: the strategy loop is exhausted
RunStepEnd ==
    /\ status = "running"
    /\ pc = "act"
    /\ unit >= num_worker_pairs * 2
    /\ phases' = EnterAct
    /\ pc' = next_phase("act")
    /\ tick' = IF next_phase("act") = FirstPhase THEN tick + 1 ELSE tick
    /\ last' = Call("run_step", 0, "none", "none")
    /\ UNCHANGED <<belt_vars, workers, since_start, config_vars, steps, status, unit, drawn_a, drawn_b, draws>>
    /\ UNCHANGED <<buf_vars, ext_vars>>

\* run: the loop is exhausted, _print_final_results emits the counters
Finish ==
    /\ status = "running"
    /\ pc = FirstPhase
    /\ tick >= steps
    /\ status' = "done"
    /\ last' = Call("_print_final_results", 0, "none", "none")
    /\ UNCHANGED <<belt_vars, workers, since_start, config_vars, steps, pc, tick, unit, phases, drawn_a, drawn_b, draws>>
    /\ UNCHANGED <<buf_vars, ext_vars>>

NextSim ==
    \/ \E pairs \in -1..MaxPairs, length \in -1..MaxBeltLength, name \in StrategyNames,
          time \in 1..MaxAssemblyTime : Construct(pairs, length, name, time)
    \/ \E n \in -1..MaxSteps : Run(n)
    \/ \E draw \in Draws : RunStepBelt(draw)
    \/ RunStepTimers
    \/ RunStepAct
    \/ RunStepEnd
    \/ Finish

SpecSim == InitSim /\ [][NextSim]_vars

\* ------------------------------------- SpecUnit: one call on any objects
\* A belt of any content and a worker of any hands and timer, as the unit
\* tests arrange them by assigning the fields, then one call of the API.
UnitWorkers(time) ==
    {[hand_left |-> l, hand_right |-> r, assembling_time_left |-> t, products_made |-> 0] :
        l \in Item, r \in Item, t \in 0..time}

InitUnit ==
    /\ belt_length \in 1..BeltLen
    /\ num_worker_pairs = TestPairs
    /\ strategy_name = "individual"
    /\ assembly_time \in 1..MaxAssemblyTime
    /\ slots \in [0..(belt_length - 1) -> Item]
    /\ missed_a \in 0..1
    /\ missed_b \in 0..1
    /\ \E w \in UnitWorkers(assembly_time) : workers = [i \in 0..1 |-> IF i = 0 THEN w ELSE NewWorker]
    /\ steps = 0
    /\ status = "unit"
    /\ pc = "none"
    /\ tick = 0
    /\ unit = 0
    /\ phases = <<>>
    /\ drawn_a = 0
    /\ drawn_b = 0
    /\ draws = 0
    /\ last = Call("init", 0, "none", "none")
    /\ since_start = [i \in 0..1 |-> -1]
    /\ BufIdle
    /\ ExtIdle

Arranged == status = "unit" /\ last.op = "init"

\* belt.step()
UnitStep ==
    /\ Arranged
    /\ slots' = step_slots(slots)
    /\ missed_a' = step_missed_a(slots, missed_a)
    /\ missed_b' = step_missed_b(slots, missed_b)
    /\ last' = CallFull("step", 0, "none", "none", step_returns(slots), 0, None)
    /\ UNCHANGED <<workers, since_start, drawn_a, drawn_b, draws, config_vars, driver_vars>>
    /\ UNCHANGED <<buf_vars, ext_vars>>

\* belt.step_with_random_item()
UnitStepWithRandomItem(draw) ==
    /\ Arranged
    /\ slots' = step_with_random_item_slots(slots, draw)
    /\ missed_a' = step_missed_a(slots, missed_a)
    /\ missed_b' = step_missed_b(slots, missed_b)
    /\ drawn_a' = IF draw = A THEN drawn_a + 1 ELSE drawn_a
    /\ drawn_b' = IF draw = B THEN drawn_b + 1 ELSE drawn_b
    /\ draws' = draws + 1
    /\ last' = Call("step_with_random_item", 0, "none", "none")
    /\ UNCHANGED <<workers, since_start, config_vars, driver_vars>>
    /\ UNCHANGED <<buf_vars, ext_vars>>

\* belt.push_item(item)
UnitPushItem(item) ==
    /\ Arranged
    /\ slots' = push_item(slots, item)
    /\ last' = CallFull("push_item", 0, "none", "none", None, 0, item)
    /\ UNCHANGED <<missed_a, missed_b, workers, since_start, drawn_a, drawn_b, draws,
                   config_vars, driver_vars>>
    /\ UNCHANGED <<buf_vars, ext_vars>>

\* workers[0].pickup(item)
UnitPickup(item) ==
    /\ Arranged
    /\ workers' = [workers EXCEPT ![0] = pickup(workers[0], item)]
    /\ last' = IF pickup_raises(workers[0])
               THEN CallFull("pickup", 0, "none", "Exception", None, 0, item)
               ELSE CallFull("pickup", 0, "pickup", "none", None, 0, item)
    /\ UNCHANGED <<belt_vars, since_start, drawn_a, drawn_b, draws, config_vars, driver_vars>>
    /\ UNCHANGED <<buf_vars, ext_vars>>

\* workers[0].start_assembly()
UnitStartAssembly ==
    /\ Arranged
    /\ workers' = [workers EXCEPT ![0] = start_assembly(workers[0], assembly_time)]
    /\ last' = Call("start_assembly", 0,
                     IF can_assemble(workers[0]) THEN "start_assembly" ELSE "none", "none")
    /\ UNCHANGED <<belt_vars, since_start, drawn_a, drawn_b, draws, config_vars, driver_vars>>
    /\ UNCHANGED <<buf_vars, ext_vars>>

\* workers[0].step_assembly()
UnitStepAssembly ==
    /\ Arranged
    /\ workers' = [workers EXCEPT ![0] = step_assembly(workers[0])]
    /\ last' = Call("step_assembly", 0, "step_assembly", "none")
    /\ UNCHANGED <<belt_vars, since_start, drawn_a, drawn_b, draws, config_vars, driver_vars>>
    /\ UNCHANGED <<buf_vars, ext_vars>>

\* workers[0].place_product()
UnitPlaceProduct ==
    /\ Arranged
    /\ workers' = [workers EXCEPT ![0] = place_product(workers[0])]
    /\ last' = CallFull("place_product", 0,
                         IF is_holding_product(workers[0]) THEN "place_product" ELSE "none", "none",
                         place_product_returns(workers[0]), 0, None)
    /\ UNCHANGED <<belt_vars, since_start, drawn_a, drawn_b, draws, config_vars, driver_vars>>
    /\ UNCHANGED <<buf_vars, ext_vars>>

\* IndividualStrategy().act(workers[0], workers[1], [belt], station)
UnitAct(station) ==
    /\ Arranged
    /\ \E order \in needs_orders(needs(workers[0])) :
        LET out == IndividualStrategy_act(workers, 0, 1, ListOfBelts(<<slots>>), station, order,
                                          assembly_time)
        IN  /\ workers' = out.workers
            /\ slots' = out.belts[1]
            /\ last' = CallFull("act", 0, out.did, out.raised, None, station, None)
    /\ UNCHANGED <<missed_a, missed_b, since_start, drawn_a, drawn_b, draws, config_vars, driver_vars>>
    /\ UNCHANGED <<buf_vars, ext_vars>>

NextUnit ==
    \/ UnitStep
    \/ \E draw \in Draws : UnitStepWithRandomItem(draw)
    \/ \E item \in {A, B, C} : UnitPushItem(item)
    \/ \E item \in {A, B, C} : UnitPickup(item)
    \/ UnitStartAssembly
    \/ UnitStepAssembly
    \/ UnitPlaceProduct
    \/ \E station \in DOMAIN slots : UnitAct(station)

SpecUnit == InitUnit /\ [][NextUnit]_vars

\* ------------------------------- SpecTeam: one TeamStrategy call on a pair
\* A worker and a partner of any hands, a belt of any content, then one call
\* of TeamStrategy._get_best_action or TeamStrategy.act with [belt].
TeamPartners ==
    {[hand_left |-> l, hand_right |-> r, assembling_time_left |-> t, products_made |-> 0] :
        l \in Item, r \in Item, t \in 0..1}

\* The value of _get_best_action with its score; type "none" stands for None.
NoAction == Action(0, "none", None, 0, 0)

BestAction(worker, partner, belts, station_index) ==
    LET action_details == get_best_action(worker, partner, belts, station_index)
    IN  IF action_details = <<>> THEN NoAction ELSE action_details[1]

InitTeam ==
    /\ belt_length = BeltLen
    /\ num_worker_pairs = TestPairs
    /\ strategy_name = "team"
    /\ assembly_time \in 1..MaxAssemblyTime
    /\ slots \in [0..(belt_length - 1) -> Item]
    /\ missed_a = 0
    /\ missed_b = 0
    /\ \E w \in UnitWorkers(assembly_time), p \in TeamPartners :
          workers = [i \in 0..1 |-> IF i = 0 THEN w ELSE p]
    /\ steps = 0
    /\ status = "unit"
    /\ pc = "none"
    /\ tick = 0
    /\ unit = 0
    /\ phases = <<>>
    /\ drawn_a = 0
    /\ drawn_b = 0
    /\ draws = 0
    /\ last = CallFull("init", 0, "none", "none", NoAction, 0, None)
    /\ since_start = [i \in 0..1 |-> -1]
    /\ BufIdle
    /\ ExtIdle

\* TeamStrategy()._get_best_action(workers[0], workers[1], [belt], station)
TeamGetBestAction(station) ==
    /\ Arranged
    /\ last' = CallFull("_get_best_action", 0, "none", "none",
                        BestAction(workers[0], workers[1], <<slots>>, station), station, None)
    /\ UNCHANGED <<belt_vars, workers, since_start, drawn_a, drawn_b, draws, config_vars, driver_vars>>
    /\ UNCHANGED <<buf_vars, ext_vars>>

\* TeamStrategy().act(workers[0], workers[1], [belt], station)
TeamAct(station) ==
    /\ Arranged
    /\ LET out == TeamStrategy_act(workers, 0, 1, ListOfBelts(<<slots>>), station, assembly_time)
       IN  /\ workers' = out.workers
           /\ slots' = out.belts[1]
           /\ last' = CallFull("act", 0, out.did, out.raised,
                               BestAction(workers[0], workers[1], <<slots>>, station), station, None)
    /\ UNCHANGED <<missed_a, missed_b, since_start, drawn_a, drawn_b, draws, config_vars, driver_vars>>
    /\ UNCHANGED <<buf_vars, ext_vars>>

NextTeam ==
    \/ \E station \in DOMAIN slots : TeamGetBestAction(station)
    \/ \E station \in DOMAIN slots : TeamAct(station)

SpecTeam == InitTeam /\ [][NextTeam]_vars


\* -------------------------------------- SpecHive: one hive_act on a roster
\* The roster of the tests: four workers.
HivePairs == 2

\* Hands and timers a worker gets from pickup, start_assembly and step_assembly.
HiveWorkers ==
    {[hand_left |-> h[1], hand_right |-> h[2], assembling_time_left |-> t, products_made |-> 0] :
        h \in {<<None, None>>, <<B, None>>, <<A, A>>, <<C, None>>}, t \in {0}}
    \cup {[hand_left |-> A, hand_right |-> B, assembling_time_left |-> t, products_made |-> 0] : t \in 0..1}

InitHive ==
    /\ belt_length = BeltLen
    /\ num_worker_pairs = HivePairs
    /\ strategy_name = "hivemind"
    /\ assembly_time = MaxAssemblyTime
    /\ slots \in [0..(belt_length - 1) -> Item]
    /\ missed_a = 0
    /\ missed_b = 0
    /\ workers \in [0..(HivePairs * 2 - 1) -> HiveWorkers]
    /\ steps = 0
    /\ status = "unit"
    /\ pc = "none"
    /\ tick = 0
    /\ unit = 0
    /\ phases = <<>>
    /\ drawn_a = 0
    /\ drawn_b = 0
    /\ draws = 0
    /\ last = Call("init", 0, "none", "none")
    /\ since_start = [i \in 0..(HivePairs * 2 - 1) |-> -1]
    /\ BufIdle
    /\ ExtIdle

\* HiveMindStrategy().hive_act(workers, [belt])
HiveAct ==
    /\ Arranged
    /\ LET out == hive_act(workers, <<slots>>, assembly_time)
       IN  /\ workers' = out.workers
           /\ slots' = out.belts[1]
           /\ last' = Call("hive_act", out.worker, out.did, "none")
    /\ UNCHANGED <<missed_a, missed_b, since_start, drawn_a, drawn_b, draws, config_vars, driver_vars>>
    /\ UNCHANGED <<buf_vars, ext_vars>>

NextHive == HiveAct

SpecHive == InitHive /\ [][NextHive]_vars


\* ================================================================ conveyor (threaded buffer)

\* Bounds of the threaded-buffer specifications.
MaxCapacity == 1
MaxItems == 2

\* The threads started: two Producers and two Consumers, named by the order in which the
\* caller stops them (producers first).
Producers == {1, 2}
Consumers == {3, 4}
Threads == Producers \cup Consumers

\* threading.Semaphore.acquire(timeout=t) takes a permit when one is there ...
acquire_succeeds(value) == value > 0

acquire_never_times_out(value) == FALSE

\* ... and gives up, returning False, only having found none.
acquire_times_out(value) == value = 0

put_without_permit(value) == value

\* ConveyorBelt.put: the permit taken from empty_slots
put_acquire(value) == value - 1

put_drops_item(deque, item) == deque

put_appendleft(deque, item) == <<item>> \o deque

\* ConveyorBelt.put: self.items.append(item)
put_append(deque, item) == Append(deque, item)

take_keeps_item(deque) == deque

\* ConveyorBelt.take: self.items.popleft() leaves the tail ...
take_popleft(deque) == Tail(deque)

\* ... and returns the head
take_item(deque) == Head(deque)

\* what put / take returned to run(): item 0 is Python's None
Returned(op, ok, item, raised) == [op |-> op, ok |-> ok, item |-> item, raised |-> raised]

\* ConveyorBelt(capacity) with NumProducers Producer and NumConsumers Consumer threads, started.
InitBuf ==
    /\ NoSimulation
    /\ ExtIdle
    /\ capacity \in 1..MaxCapacity
    /\ items = <<>>
    /\ lock = 0
    /\ filled_slots = 0
    /\ empty_slots = capacity
    /\ thread_pc = [t \in Threads |-> "loop"]
    /\ item_held = [t \in Threads |-> 0]
    /\ stop_event = [t \in Threads |-> FALSE]
    /\ items_produced = [t \in Producers |-> 0]
    /\ items_consumed = [t \in Consumers |-> 0]
    /\ item_serial_counter = 0
    /\ returned = [t \in Threads |-> Returned("none", FALSE, 0, "none")]
    /\ taken = <<>>

\* Producer.stop() / Consumer.stop(), called by the main thread: `for p in producers:
\* p.stop()`, then `for c in consumers: c.stop()`
Stop(t) ==
    /\ ~stop_event[t]
    /\ \A u \in Threads : u < t => stop_event[u]
    /\ stop_event' = [stop_event EXCEPT ![t] = TRUE]
    /\ UNCHANGED <<capacity, items, lock, filled_slots, empty_slots, thread_pc, item_held,
                   items_produced, items_consumed, item_serial_counter, returned, taken>>
    /\ UNCHANGED <<sim_vars, ext_vars>>

\* run(): the loop condition found the stop event set
Exit(t) ==
    /\ thread_pc[t] = "loop"
    /\ stop_event[t]
    /\ thread_pc' = [thread_pc EXCEPT ![t] = "done"]
    /\ UNCHANGED <<capacity, items, lock, filled_slots, empty_slots, item_held, stop_event,
                   items_produced, items_consumed, item_serial_counter, returned, taken>>
    /\ UNCHANGED <<sim_vars, ext_vars>>

\* Producer.run(): item = next(item_serial_counter), then the sleep
ProducerNext(t) ==
    /\ t \in Producers
    /\ thread_pc[t] = "loop"
    /\ ~stop_event[t]
    /\ item_serial_counter < MaxItems
    /\ item_serial_counter' = item_serial_counter + 1
    /\ item_held' = [item_held EXCEPT ![t] = item_serial_counter + 1]
    /\ thread_pc' = [thread_pc EXCEPT ![t] = "put_acquire"]
    /\ UNCHANGED <<capacity, items, lock, filled_slots, empty_slots, stop_event,
                   items_produced, items_consumed, returned, taken>>
    /\ UNCHANGED <<sim_vars, ext_vars>>

\* put(): self.empty_slots.acquire(timeout=timeout) got a permit
PutAcquire(t) ==
    /\ thread_pc[t] = "put_acquire"
    /\ acquire_succeeds(empty_slots)
    /\ empty_slots' = put_acquire(empty_slots)
    /\ thread_pc' = [thread_pc EXCEPT ![t] = "put_lock"]
    /\ UNCHANGED <<capacity, items, lock, filled_slots, item_held, stop_event,
                   items_produced, items_consumed, item_serial_counter, returned, taken>>
    /\ UNCHANGED <<sim_vars, ext_vars>>

\* put(): the acquire timed out, put returns False and run() loops
PutTimeout(t) ==
    /\ thread_pc[t] = "put_acquire"
    /\ acquire_times_out(empty_slots)
    /\ returned' = [returned EXCEPT ![t] = Returned("put", FALSE, item_held[t], "none")]
    /\ thread_pc' = [thread_pc EXCEPT ![t] = "loop"]
    /\ UNCHANGED <<capacity, items, lock, filled_slots, empty_slots, item_held, stop_event,
                   items_produced, items_consumed, item_serial_counter, taken>>
    /\ UNCHANGED <<sim_vars, ext_vars>>

\* put(): with self.lock, entry
PutLock(t) ==
    /\ thread_pc[t] = "put_lock"
    /\ lock = 0
    /\ lock' = t
    /\ thread_pc' = [thread_pc EXCEPT ![t] = "put_append"]
    /\ UNCHANGED <<capacity, items, filled_slots, empty_slots, item_held, stop_event,
                   items_produced, items_consumed, item_serial_counter, returned, taken>>
    /\ UNCHANGED <<sim_vars, ext_vars>>

\* put(): self.items.append(item), and the with block releases the lock
PutAppend(t) ==
    /\ thread_pc[t] = "put_append"
    /\ items' = put_append(items, item_held[t])
    /\ lock' = 0
    /\ thread_pc' = [thread_pc EXCEPT ![t] = "put_release"]
    /\ UNCHANGED <<capacity, filled_slots, empty_slots, item_held, stop_event,
                   items_produced, items_consumed, item_serial_counter, returned, taken>>
    /\ appended' = Append(appended, item_held[t])
    /\ UNCHANGED <<sim_vars, slots_b, calls, main_pc, released>>

\* put(): self.filled_slots.release(); return True
PutRelease(t) ==
    /\ thread_pc[t] = "put_release"
    /\ filled_slots' = filled_slots + 1
    /\ returned' = [returned EXCEPT ![t] = Returned("put", TRUE, item_held[t], "none")]
    /\ thread_pc' = [thread_pc EXCEPT ![t] = "produced"]
    /\ UNCHANGED <<capacity, items, lock, empty_slots, item_held, stop_event,
                   items_produced, items_consumed, item_serial_counter, taken>>
    /\ UNCHANGED <<sim_vars, ext_vars>>

\* Producer.run(): self.items_produced += 1
ProducerCount(t) ==
    /\ thread_pc[t] = "produced"
    /\ items_produced' = [items_produced EXCEPT ![t] = @ + 1]
    /\ thread_pc' = [thread_pc EXCEPT ![t] = "loop"]
    /\ UNCHANGED <<capacity, items, lock, filled_slots, empty_slots, item_held, stop_event,
                   items_consumed, item_serial_counter, returned, taken>>
    /\ UNCHANGED <<sim_vars, ext_vars>>

\* Consumer.run(): the loop condition found the stop event clear and calls self.belt.take
ConsumerNext(t) ==
    /\ t \in Consumers
    /\ thread_pc[t] = "loop"
    /\ ~stop_event[t]
    /\ thread_pc' = [thread_pc EXCEPT ![t] = "take_acquire"]
    /\ UNCHANGED <<capacity, items, lock, filled_slots, empty_slots, item_held, stop_event,
                   items_produced, items_consumed, item_serial_counter, returned, taken>>
    /\ UNCHANGED <<sim_vars, ext_vars>>

\* take(): self.filled_slots.acquire(timeout=timeout) got a permit
TakeAcquire(t) ==
    /\ thread_pc[t] = "take_acquire"
    /\ acquire_succeeds(filled_slots)
    /\ filled_slots' = filled_slots - 1
    /\ thread_pc' = [thread_pc EXCEPT ![t] = "take_lock"]
    /\ UNCHANGED <<capacity, items, lock, empty_slots, item_held, stop_event,
                   items_produced, items_consumed, item_serial_counter, returned, taken>>
    /\ UNCHANGED <<sim_vars, ext_vars>>

\* take(): the acquire timed out, take returns None and run() loops
TakeTimeout(t) ==
    /\ thread_pc[t] = "take_acquire"
    /\ acquire_times_out(filled_slots)
    /\ item_held' = [item_held EXCEPT ![t] = 0]
    /\ returned' = [returned EXCEPT ![t] = Returned("take", FALSE, 0, "none")]
    /\ thread_pc' = [thread_pc EXCEPT ![t] = "loop"]
    /\ UNCHANGED <<capacity, items, lock, filled_slots, empty_slots, stop_event,
                   items_produced, items_consumed, item_serial_counter, taken>>
    /\ UNCHANGED <<sim_vars, ext_vars>>

\* take(): with self.lock, entry
TakeLock(t) ==
    /\ thread_pc[t] = "take_lock"
    /\ lock = 0
    /\ lock' = t
    /\ thread_pc' = [thread_pc EXCEPT ![t] = "take_popleft"]
    /\ UNCHANGED <<capacity, items, filled_slots, empty_slots, item_held, stop_event,
                   items_produced, items_consumed, item_serial_counter, returned, taken>>
    /\ UNCHANGED <<sim_vars, ext_vars>>

\* take(): item = self.items.popleft(), and the with block releases the lock.  popleft of
\* an empty deque raises IndexError, which run() catches and answers by leaving its loop.
TakePopleft(t) ==
    /\ thread_pc[t] = "take_popleft"
    /\ lock' = 0
    /\ IF items = <<>>
       THEN /\ returned' = [returned EXCEPT ![t] = Returned("take", FALSE, 0, "IndexError")]
            /\ thread_pc' = [thread_pc EXCEPT ![t] = "done"]
            /\ UNCHANGED <<items, item_held, taken>>
       ELSE /\ item_held' = [item_held EXCEPT ![t] = take_item(items)]
            /\ items' = take_popleft(items)
            /\ taken' = Append(taken, take_item(items))
            /\ thread_pc' = [thread_pc EXCEPT ![t] = "take_release"]
            /\ UNCHANGED returned
    /\ UNCHANGED <<capacity, filled_slots, empty_slots, stop_event,
                   items_produced, items_consumed, item_serial_counter>>
    /\ UNCHANGED <<sim_vars, ext_vars>>

\* take(): self.empty_slots.release(); return item
TakeRelease(t) ==
    /\ thread_pc[t] = "take_release"
    /\ empty_slots' = empty_slots + 1
    /\ returned' = [returned EXCEPT ![t] = Returned("take", TRUE, item_held[t], "none")]
    /\ thread_pc' = [thread_pc EXCEPT ![t] = "consumed"]
    /\ UNCHANGED <<capacity, items, lock, filled_slots, item_held, stop_event,
                   items_produced, items_consumed, item_serial_counter, taken>>
    /\ UNCHANGED <<sim_vars, ext_vars>>

\* Consumer.run(): self.items_consumed += 1, then the sleep
ConsumerCount(t) ==
    /\ thread_pc[t] = "consumed"
    /\ items_consumed' = [items_consumed EXCEPT ![t] = @ + 1]
    /\ thread_pc' = [thread_pc EXCEPT ![t] = "loop"]
    /\ UNCHANGED <<capacity, items, lock, filled_slots, empty_slots, item_held, stop_event,
                   items_produced, item_serial_counter, returned, taken>>
    /\ UNCHANGED <<sim_vars, ext_vars>>

\* one step of the thread t
ThreadStep(t) ==
    \/ Exit(t)
    \/ ProducerNext(t)
    \/ PutAcquire(t)
    \/ PutTimeout(t)
    \/ PutLock(t)
    \/ PutAppend(t)
    \/ PutRelease(t)
    \/ ProducerCount(t)
    \/ ConsumerNext(t)
    \/ TakeAcquire(t)
    \/ TakeTimeout(t)
    \/ TakeLock(t)
    \/ TakePopleft(t)
    \/ TakeRelease(t)
    \/ ConsumerCount(t)

NextBuf ==
    \/ \E t \in Threads : Stop(t)
    \/ \E t \in Threads : ThreadStep(t)

SpecBuf == InitBuf /\ [][NextBuf]_vars

\* The same threads on a belt of any capacity up to one more than MaxCapacity, so that
\* items queue up on the larger belt and a put times out on the smaller.
InitFifo ==
    /\ NoSimulation
    /\ ExtIdle
    /\ capacity \in 1..(MaxCapacity + 1)
    /\ items = <<>>
    /\ lock = 0
    /\ filled_slots = 0
    /\ empty_slots = capacity
    /\ thread_pc = [t \in Threads |-> "loop"]
    /\ item_held = [t \in Threads |-> 0]
    /\ stop_event = [t \in Threads |-> FALSE]
    /\ items_produced = [t \in Producers |-> 0]
    /\ items_consumed = [t \in Consumers |-> 0]
    /\ item_serial_counter = 0
    /\ returned = [t \in Threads |-> Returned("none", FALSE, 0, "none")]
    /\ taken = <<>>

SpecFifo == InitFifo /\ [][NextBuf]_vars

\* The same program with every started thread scheduled again and again: a thread that can
\* take a step (a timed acquire can always either get its permit or time out) takes one.
SpecBufFair == SpecBuf /\ \A t \in Threads : WF_vars(ThreadStep(t))

\* every thread has left run(), so that join() returns
AllJoined == \A t \in Threads : thread_pc[t] = "done"

\* stop() has been called on every thread
AllStopped == \A t \in Threads : stop_event[t]

RECURSIVE SumOver(_, _)
SumOver(f, S) == IF S = {} THEN 0 ELSE LET t == CHOOSE x \in S : TRUE IN f[t] + SumOver(f, S \ {t})

BufTypeOK ==
    /\ capacity \in 1..(MaxCapacity + 1)
    /\ lock \in {0} \cup Threads
    /\ filled_slots \in Nat
    /\ empty_slots \in Nat
    /\ item_serial_counter \in 0..MaxItems


\* ------------------------------- SpecBelt: push_item and step calls on a belt
\* A new ConveyorBelt, then a sequence of push_item and step calls, logged.
MaxCalls == 6

BeltCall(op, item) == [op |-> op, item |-> item]

InitBelt ==
    /\ belt_length \in 1..(BeltLen + 1)
    /\ num_worker_pairs = 0
    /\ strategy_name = "individual"
    /\ assembly_time = 1
    /\ slots = NewSlots(belt_length)
    /\ missed_a = 0
    /\ missed_b = 0
    /\ workers = <<>>
    /\ steps = 0
    /\ status = "belt"
    /\ pc = "none"
    /\ tick = 0
    /\ unit = 0
    /\ phases = <<>>
    /\ drawn_a = 0
    /\ drawn_b = 0
    /\ draws = 0
    /\ last = Call("init", 0, "none", "none")
    /\ since_start = <<>>
    /\ BufIdle
    /\ ExtIdle

\* belt.push_item(item)
BeltPushItem(item) ==
    /\ status = "belt"
    /\ Len(calls) < MaxCalls
    /\ slots' = push_item(slots, item)
    /\ calls' = Append(calls, BeltCall("push_item", item))
    /\ last' = CallFull("push_item", 0, "none", "none", None, 0, item)
    /\ UNCHANGED <<missed_a, missed_b, workers, since_start, drawn_a, drawn_b, draws,
                   config_vars, driver_vars>>
    /\ UNCHANGED <<buf_vars, slots_b, main_pc, released, appended>>

\* belt.step()
BeltStepCall ==
    /\ status = "belt"
    /\ Len(calls) < MaxCalls
    /\ slots' = step_slots(slots)
    /\ missed_a' = step_missed_a(slots, missed_a)
    /\ missed_b' = step_missed_b(slots, missed_b)
    /\ calls' = Append(calls, BeltCall("step", None))
    /\ last' = CallFull("step", 0, "none", "none", step_returns(slots), 0, None)
    /\ UNCHANGED <<workers, since_start, drawn_a, drawn_b, draws, config_vars, driver_vars>>
    /\ UNCHANGED <<buf_vars, slots_b, main_pc, released, appended>>

NextBelt ==
    \/ \E item \in {A, B, C} : BeltPushItem(item)
    \/ BeltStepCall

SpecBelt == InitBelt /\ [][NextBelt]_vars


\* ------------------------------- SpecConv: conveyor_simulation.main
\* conveyor_simulation.py has its own ConveyorBelt, Producer and Consumer: put_item and
\* take_item block without a timeout, all threads share one stop_event, and main() releases
\* extra permits after setting it.
\* Producer.__init__ and Consumer.__init__ compute self.ident % 100 before the thread is
\* started, when ident is None: as written, main() raises TypeError at its first
\* Producer(belt, stop_event) and starts no thread.  This specification describes the threads
\* as main() means to start them, to examine run(), put_item, take_item and the shutdown.
NUM_PRODUCERS == 2
NUM_CONSUMERS == 3

ConvProducers == 1..NUM_PRODUCERS
ConvConsumers == (NUM_PRODUCERS + 1)..(NUM_PRODUCERS + NUM_CONSUMERS)
ConvThreads == ConvProducers \cup ConvConsumers

\* main(): belt = ConveyorBelt(capacity); stop_event = threading.Event(); the threads started
InitConv ==
    /\ NoSimulation
    /\ slots_b = <<>>
    /\ calls = <<>>
    /\ appended = <<>>
    /\ main_pc = "sleep"
    /\ released = 0
    /\ capacity \in 1..MaxCapacity
    /\ items = <<>>
    /\ lock = 0
    /\ filled_slots = 0
    /\ empty_slots = capacity
    /\ thread_pc = [t \in ConvThreads |-> "loop"]
    /\ item_held = [t \in ConvThreads |-> 0]
    /\ stop_event = [t \in ConvThreads |-> FALSE]
    /\ items_produced = <<>>
    /\ items_consumed = <<>>
    /\ item_serial_counter = 0
    /\ returned = [t \in ConvThreads |-> Returned("none", FALSE, 0, "none")]
    /\ taken = <<>>

\* main(): stop_event.set(), the one Event every thread holds
MainStop ==
    /\ main_pc = "sleep"
    /\ stop_event' = [t \in ConvThreads |-> TRUE]
    /\ main_pc' = "release_filled"
    /\ released' = 0
    /\ UNCHANGED <<capacity, items, lock, filled_slots, empty_slots, thread_pc, item_held,
                   items_produced, items_consumed, item_serial_counter, returned, taken>>
    /\ UNCHANGED <<sim_vars, slots_b, calls, appended>>

\* main(): for _ in range(NUM_PRODUCERS): belt.filled_slots.release()
MainReleaseFilled ==
    /\ main_pc = "release_filled"
    /\ IF released < NUM_PRODUCERS
       THEN /\ filled_slots' = filled_slots + 1
            /\ released' = released + 1
            /\ UNCHANGED main_pc
       ELSE /\ main_pc' = "release_empty"
            /\ released' = 0
            /\ UNCHANGED filled_slots
    /\ UNCHANGED <<capacity, items, lock, empty_slots, thread_pc, item_held, stop_event,
                   items_produced, items_consumed, item_serial_counter, returned, taken>>
    /\ UNCHANGED <<sim_vars, slots_b, calls, appended>>

\* main(): for _ in range(NUM_CONSUMERS): belt.empty_slots.release()
MainReleaseEmpty ==
    /\ main_pc = "release_empty"
    /\ IF released < NUM_CONSUMERS
       THEN /\ empty_slots' = empty_slots + 1
            /\ released' = released + 1
            /\ UNCHANGED main_pc
       ELSE /\ main_pc' = "join"
            /\ released' = 0
            /\ UNCHANGED empty_slots
    /\ UNCHANGED <<capacity, items, lock, filled_slots, thread_pc, item_held, stop_event,
                   items_produced, items_consumed, item_serial_counter, returned, taken>>
    /\ UNCHANGED <<sim_vars, slots_b, calls, appended>>

\* run(): the loop condition found stop_event set
ConvExit(t) ==
    /\ thread_pc[t] = "loop"
    /\ stop_event[t]
    /\ thread_pc' = [thread_pc EXCEPT ![t] = "done"]
    /\ UNCHANGED <<capacity, items, lock, filled_slots, empty_slots, item_held, stop_event,
                   items_produced, items_consumed, item_serial_counter, returned, taken>>
    /\ UNCHANGED <<sim_vars, ext_vars>>

\* Producer.run(): item = next(item_serial_counter), the sleep, the call of put_item
ConvProducerNext(t) ==
    /\ t \in ConvProducers
    /\ thread_pc[t] = "loop"
    /\ ~stop_event[t]
    /\ item_serial_counter < MaxItems
    /\ item_serial_counter' = item_serial_counter + 1
    /\ item_held' = [item_held EXCEPT ![t] = item_serial_counter + 1]
    /\ thread_pc' = [thread_pc EXCEPT ![t] = "put_acquire"]
    /\ UNCHANGED <<capacity, items, lock, filled_slots, empty_slots, stop_event,
                   items_produced, items_consumed, returned, taken>>
    /\ UNCHANGED <<sim_vars, ext_vars>>

\* put_item(): self.empty_slots.acquire(), blocking until a permit is there
ConvPutAcquire(t) ==
    /\ thread_pc[t] = "put_acquire"
    /\ empty_slots > 0
    /\ empty_slots' = empty_slots - 1
    /\ thread_pc' = [thread_pc EXCEPT ![t] = "put_lock"]
    /\ UNCHANGED <<capacity, items, lock, filled_slots, item_held, stop_event,
                   items_produced, items_consumed, item_serial_counter, returned, taken>>
    /\ UNCHANGED <<sim_vars, ext_vars>>

\* put_item(): with self.lock, entry
ConvPutLock(t) ==
    /\ thread_pc[t] = "put_lock"
    /\ lock = 0
    /\ lock' = t
    /\ thread_pc' = [thread_pc EXCEPT ![t] = "put_append"]
    /\ UNCHANGED <<capacity, items, filled_slots, empty_slots, item_held, stop_event,
                   items_produced, items_consumed, item_serial_counter, returned, taken>>
    /\ UNCHANGED <<sim_vars, ext_vars>>

\* put_item(): self.belt.append(item), and the with block releases the lock
ConvPutAppend(t) ==
    /\ thread_pc[t] = "put_append"
    /\ items' = Append(items, item_held[t])
    /\ lock' = 0
    /\ thread_pc' = [thread_pc EXCEPT ![t] = "put_release"]
    /\ UNCHANGED <<capacity, filled_slots, empty_slots, item_held, stop_event,
                   items_produced, items_consumed, item_serial_counter, returned, taken>>
    /\ UNCHANGED <<sim_vars, ext_vars>>

\* put_item(): self.filled_slots.release(), and run() loops
ConvPutRelease(t) ==
    /\ thread_pc[t] = "put_release"
    /\ filled_slots' = filled_slots + 1
    /\ thread_pc' = [thread_pc EXCEPT ![t] = "loop"]
    /\ UNCHANGED <<capacity, items, lock, empty_slots, item_held, stop_event,
                   items_produced, items_consumed, item_serial_counter, returned, taken>>
    /\ UNCHANGED <<sim_vars, ext_vars>>

\* Consumer.run(): the loop condition found stop_event clear and calls take_item
ConvConsumerNext(t) ==
    /\ t \in ConvConsumers
    /\ thread_pc[t] = "loop"
    /\ ~stop_event[t]
    /\ thread_pc' = [thread_pc EXCEPT ![t] = "take_acquire"]
    /\ UNCHANGED <<capacity, items, lock, filled_slots, empty_slots, item_held, stop_event,
                   items_produced, items_consumed, item_serial_counter, returned, taken>>
    /\ UNCHANGED <<sim_vars, ext_vars>>

\* take_item(): self.filled_slots.acquire(), blocking until a permit is there
ConvTakeAcquire(t) ==
    /\ thread_pc[t] = "take_acquire"
    /\ filled_slots > 0
    /\ filled_slots' = filled_slots - 1
    /\ thread_pc' = [thread_pc EXCEPT ![t] = "take_lock"]
    /\ UNCHANGED <<capacity, items, lock, empty_slots, item_held, stop_event,
                   items_produced, items_consumed, item_serial_counter, returned, taken>>
    /\ UNCHANGED <<sim_vars, ext_vars>>

\* take_item(): with self.lock, entry
ConvTakeLock(t) ==
    /\ thread_pc[t] = "take_lock"
    /\ lock = 0
    /\ lock' = t
    /\ thread_pc' = [thread_pc EXCEPT ![t] = "take_popleft"]
    /\ UNCHANGED <<capacity, items, filled_slots, empty_slots, item_held, stop_event,
                   items_produced, items_consumed, item_serial_counter, returned, taken>>
    /\ UNCHANGED <<sim_vars, ext_vars>>

\* take_item(): item = self.belt.popleft(), and the with block releases the lock.  popleft
\* of an empty deque raises IndexError; run() catches it and breaks out of its loop.
ConvTakePopleft(t) ==
    /\ thread_pc[t] = "take_popleft"
    /\ lock' = 0
    /\ IF items = <<>>
       THEN /\ returned' = [returned EXCEPT ![t] = Returned("take_item", FALSE, 0, "IndexError")]
            /\ thread_pc' = [thread_pc EXCEPT ![t] = "done"]
            /\ UNCHANGED <<items, item_held>>
       ELSE /\ item_held' = [item_held EXCEPT ![t] = Head(items)]
            /\ items' = Tail(items)
            /\ thread_pc' = [thread_pc EXCEPT ![t] = "take_release"]
            /\ UNCHANGED returned
    /\ UNCHANGED <<capacity, filled_slots, empty_slots, stop_event,
                   items_produced, items_consumed, item_serial_counter, taken>>
    /\ UNCHANGED <<sim_vars, ext_vars>>

\* take_item(): self.empty_slots.release(); return item, then the sleep, and run() loops
ConvTakeRelease(t) ==
    /\ thread_pc[t] = "take_release"
    /\ empty_slots' = empty_slots + 1
    /\ thread_pc' = [thread_pc EXCEPT ![t] = "loop"]
    /\ UNCHANGED <<capacity, items, lock, filled_slots, item_held, stop_event,
                   items_produced, items_consumed, item_serial_counter, returned, taken>>
    /\ UNCHANGED <<sim_vars, ext_vars>>

\* one step of the thread t
ConvThreadStep(t) ==
    \/ ConvExit(t)
    \/ ConvProducerNext(t)
    \/ ConvPutAcquire(t)
    \/ ConvPutLock(t)
    \/ ConvPutAppend(t)
    \/ ConvPutRelease(t)
    \/ ConvConsumerNext(t)
    \/ ConvTakeAcquire(t)
    \/ ConvTakeLock(t)
    \/ ConvTakePopleft(t)
    \/ ConvTakeRelease(t)

NextConv ==
    \/ MainStop
    \/ MainReleaseFilled
    \/ MainReleaseEmpty
    \/ \E t \in ConvThreads : ConvThreadStep(t)

SpecConv == InitConv /\ [][NextConv]_vars

\* a thread waiting in an acquire that has no permit to give
ConvParked(t) ==
    \/ thread_pc[t] = "put_acquire" /\ empty_slots = 0
    \/ thread_pc[t] = "take_acquire" /\ filled_slots = 0


\* ------------------------------- SpecBelts: one act call on a list of two belts
\* Two belts of one length and any content and a worker of any hands and timer, then one
\* call IndividualStrategy().act(workers[0], workers[1], [belt, belt_b], station).
InitBelts ==
    /\ belt_length \in 1..BeltLen
    /\ num_worker_pairs = TestPairs
    /\ strategy_name = "individual"
    /\ assembly_time \in 1..MaxAssemblyTime
    /\ slots \in [0..(belt_length - 1) -> Item]
    /\ slots_b \in [0..(belt_length - 1) -> Item]
    /\ missed_a = 0
    /\ missed_b = 0
    /\ \E w \in UnitWorkers(assembly_time) : workers = [i \in 0..1 |-> IF i = 0 THEN w ELSE NewWorker]
    /\ steps = 0
    /\ status = "belts"
    /\ pc = "none"
    /\ tick = 0
    /\ unit = 0
    /\ phases = <<>>
    /\ drawn_a = 0
    /\ drawn_b = 0
    /\ draws = 0
    /\ last = Call("init", 0, "none", "none")
    /\ since_start = [i \in 0..1 |-> -1]
    /\ BufIdle
    /\ calls = <<>>
    /\ main_pc = "idle"
    /\ released = 0
    /\ appended = <<>>

\* the outcomes of the call at the station, one for each order the list needs() returns
\* can have
BeltsActOutcomes(station) ==
    {IndividualStrategy_act(workers, 0, 1, ListOfBelts(<<slots, slots_b>>), station, order,
                            assembly_time) : order \in needs_orders(needs(workers[0]))}

\* IndividualStrategy().act(workers[0], workers[1], [belt, belt_b], station)
BeltsAct(station) ==
    /\ status = "belts"
    /\ last.op = "init"
    /\ \E out \in BeltsActOutcomes(station) :
        /\ workers' = out.workers
        /\ slots' = out.belts[1]
        /\ slots_b' = out.belts[2]
        /\ last' = CallFull("act", 0, out.did, out.raised, None, station, None)
    /\ UNCHANGED <<missed_a, missed_b, since_start, drawn_a, drawn_b, draws, config_vars, driver_vars>>
    /\ UNCHANGED <<buf_vars, calls, main_pc, released, appended>>

NextBelts == \E station \in DOMAIN slots : BeltsAct(station)

SpecBelts == InitBelts /\ [][NextBelts]_vars


\* ================================================================ claims

IsPrefix(s, t) == Len(s) <= Len(t) /\ \A k \in 1..Len(s) : s[k] = t[k]

\* C1 Conservation: for each component type X in {A, B}, the number of X drawn
\* onto the belt head equals missed_X + X on belt slots + X in worker hands +
\* the sum of products_made over all workers; no pickup, give, assembly,
\* product placement or belt shift loses or duplicates a component.
C1_Conservation ==
    /\ drawn_a = missed_a + OnBelt(A) + InHands(A) + SumProducts(WorkerIds)
    /\ drawn_b = missed_b + OnBelt(B) + InHands(B) + SumProducts(WorkerIds)

\* C1 witness: a product was made, a component fell off the tail and another
\* is still held, after a strategy call.
C1_Witness ==
    /\ SumProducts(WorkerIds) >= 1
    /\ missed_a + missed_b >= 1
    /\ InHands(A) + InHands(B) >= 1
    /\ last.op = "act"

\* C2 (as claimed): act() on a worker that is assembling changes nothing: not
\* the worker's timer, hands or products_made, not the partner, not the belt.
C2_ActOnAssemblingChangesNothing ==
    [][(last'.op = "act" /\ is_assembling(workers[last'.w])) => (workers' = workers /\ slots' = slots)]_vars

\* C3, effect of one step_assembly() call on worker w: timer t > 1 becomes
\* t - 1 with hands and products_made unchanged; t = 1 becomes 0 with
\* hand_left = C, hand_right empty and products_made + 1; t = 0 changes nothing.
C3_StepEffect ==
    last'.did = "step_assembly" =>
        LET before == workers[last'.w]
            after == workers'[last'.w]
            t == before.assembling_time_left
        IN  /\ t > 1 => after = [before EXCEPT !.assembling_time_left = t - 1]
            /\ t = 1 => after = [before EXCEPT !.assembling_time_left = 0, !.hand_left = C,
                                               !.hand_right = None, !.products_made = before.products_made + 1]
            /\ t = 0 => after = before

\* C3, products_made changes only in the call that moves the timer from 1 to 0.
C3_CompletionOnlyAtZero ==
    \A w \in WorkerIds :
        workers'[w].products_made # workers[w].products_made =>
            /\ last'.did = "step_assembly"
            /\ last'.w = w
            /\ workers[w].assembling_time_left = 1

\* C3, the count: k step_assembly() calls after start_assembly() leave
\* assembling_time_left = assembly_time - k for every k <= assembly_time.
C3_Countdown ==
    \A w \in WorkerIds :
        since_start[w] >= 0 => workers[w].assembling_time_left = assembly_time - since_start[w]

\* C3 Assembly countdown: after start_assembly() with assembly_time = T, the
\* k-th step_assembly() call for k < T leaves hands and products_made unchanged
\* and the timer at T - k; the T-th call yields C in the left hand, an empty
\* right hand and one more product; further calls change nothing.
C3_AssemblyCountdown ==
    /\ []C3_Countdown
    /\ [][C3_StepEffect]_vars
    /\ [][C3_CompletionOnlyAtZero]_vars

\* C3 witness: the T-th call (T = 2) has just completed an assembly.
C3_Witness ==
    /\ assembly_time = 2
    /\ last.op = "step_assembly"
    /\ since_start[last.w] = assembly_time
    /\ workers[last.w].hand_left = C
    /\ workers[last.w].hand_right = None
    /\ workers[last.w].products_made = 1

\* C4 (as claimed): only the timer-advance step (the direct step_assembly()
\* call of run_step's loop) decrements a worker's assembly timer; a strategy
\* call never does.
C4_OnlyTimerStepDecrements ==
    [][\A w \in WorkerIds :
          workers'[w].assembling_time_left < workers[w].assembling_time_left => last'.op = "step_assembly"]_vars

\* C5 (as claimed): in run_step the belt shift is the last mutation of the
\* tick: when timers advance or strategies act in a tick, that tick's belt
\* shift has not happened yet.
C5_ShiftIsLast ==
    (status = "running" /\ pc \in {"timers", "act"}) => draws = tick

\* C5 (amended): in every tick of run_step the belt advances first, then the
\* assembly timers, then the strategy calls, which see the belt as shifted in
\* this tick; no belt shift of a tick follows a timer or strategy phase of it.
C5_ShiftIsFirst ==
    /\ IsPrefix(phases, <<"belt", "timers", "act">>)
    /\ (status = "running" /\ pc \in {"timers", "act"}) => draws = tick + 1
    /\ (status = "running" /\ pc = "belt") => draws = tick
    /\ last.op = "act" => draws = tick + 1

\* C5 witness: the first strategy call of a run was made after the first
\* tick's shift put A at the head.
C5_Witness ==
    /\ last.op = "act"
    /\ phases = <<"belt", "timers", "act">>
    /\ tick = 0
    /\ draws = 1
    /\ slots[0] = A

\* C6 (as claimed): with a known strategy, construction raises exactly when
\* num_worker_pairs * 2 > belt_length.
C6_WorkersBound ==
    (status # "new" /\ strategy_name \in {"individual", "team"}) =>
        (status = "ValueError" <=> num_worker_pairs * 2 > belt_length)

\* C6 (amended): with a known strategy, construction raises ValueError exactly
\* when num_worker_pairs > belt_length (pairs, not workers, are compared):
\* num_worker_pairs = belt_length is accepted, num_worker_pairs =
\* belt_length + 1 raises, and no tick has run when it raises.
C6_PairsBound ==
    (status # "new" /\ strategy_name \in {"individual", "team"}) =>
        /\ status = "ValueError" <=> num_worker_pairs > belt_length
        /\ status = "ValueError" => (draws = 0 /\ tick = 0 /\ DOMAIN workers = {})

\* C6 witness: as many pairs as slots (twice as many workers) were accepted.
C6_Witness ==
    /\ status = "constructed"
    /\ num_worker_pairs = belt_length
    /\ num_worker_pairs = 3
    /\ Cardinality(DOMAIN workers) = 6

\* C7: construction raises ValueError when num_worker_pairs exceeds
\* belt_length (11 pairs on 10 slots) and does not raise when they are equal
\* (10 pairs, 20 workers, on 10 slots, strategy individual).
C7_PairsVersusLength ==
    status # "new" =>
        /\ num_worker_pairs > belt_length => status = "ValueError"
        /\ (num_worker_pairs = 11 /\ belt_length = 10) => status = "ValueError"
        /\ (num_worker_pairs = belt_length /\ strategy_name = "individual") => status # "ValueError"
        /\ (num_worker_pairs = 10 /\ belt_length = 10 /\ strategy_name = "individual"
               /\ status = "constructed") => Cardinality(DOMAIN workers) = 20

\* C7 witness: 10 pairs on a belt of length 10 were constructed.
C7_Witness ==
    /\ status = "constructed"
    /\ num_worker_pairs = 10
    /\ belt_length = 10
    /\ strategy_name = "individual"

\* C8 (as claimed): construction succeeds for individual, team and hivemind
\* and raises for any other strategy name.
C8_HivemindAccepted ==
    (status # "new" /\ num_worker_pairs <= belt_length) =>
        (status = "ValueError" <=> strategy_name \notin {"individual", "team", "hivemind"})

\* C9 (as claimed): a belt_length <= 0 or a tick count steps <= 0 is rejected
\* with a configuration error: no simulation is constructed with such a belt
\* and none runs or emits results with such a tick count.
C9_NonPositiveRejected ==
    /\ status \notin {"new", "ValueError"} => belt_length > 0
    /\ status \in {"running", "done"} => steps > 0

\* C10: Worker.pickup, called for a belt pickup or through a partner's give,
\* is never invoked on a worker whose two hands are both occupied.
C10_PickupNeverOnFullHands == last.raised # "Exception"

\* C10 witness: a give has just filled the partner's second hand.
C10_Witness ==
    /\ last.did = "give_component"
    /\ last.raised = "none"
    /\ is_full(workers[partner_idx(last.w)])

\* The tail content of the belt before a call.
TailBefore == slots[BeltLength(slots) - 1]

\* C11 Belt step: after belt.step() on a belt of length L >= 1 slot 0 is empty,
\* slot i holds what slot i-1 held for 1 <= i < L, and the call returns the
\* former tail when that was A or B and none when it was C or empty; no
\* operation at all changes the number of slots.
C11_StepShifts ==
    [][/\ DOMAIN slots' = DOMAIN slots
       /\ BeltLength(slots') = belt_length
       /\ (last'.op = "step" =>
            /\ slots'[0] = None
            /\ \A i \in DOMAIN slots \ {0} : slots'[i] = slots[i - 1]
            /\ last'.ret = (IF TailBefore \in {A, B} THEN TailBefore ELSE None))]_vars

\* A step of a two-slot belt returned the A of its tail and moved a product
\* from the head to the tail.
C11_Witness ==
    /\ last.op = "step"
    /\ last.ret = A
    /\ BeltLength(slots) = 2
    /\ slots[0] = None
    /\ slots[1] = C

\* C12 Missed counters: missed_a (missed_b) grows by exactly 1 in a step() whose
\* tail slot holds A (B) at that moment, and is unchanged by a step() whose
\* tail holds C or nothing and by every other operation; it never decreases.
C12_MissedOnlyInStep ==
    [][LET stepping == last'.op \in {"step", "step_with_random_item"}
       IN  /\ missed_a' = missed_a + (IF stepping /\ TailBefore = A THEN 1 ELSE 0)
           /\ missed_b' = missed_b + (IF stepping /\ TailBefore = B THEN 1 ELSE 0)
           /\ missed_a' >= missed_a
           /\ missed_b' >= missed_b]_vars

\* A step dropped a B from the tail: missed_b went from 1 to 2, missed_a stayed.
C12_Witness ==
    /\ last.op = "step"
    /\ last.ret = B
    /\ missed_b = 2
    /\ missed_a = 0

\* C13 Random refill: after step_with_random_item() slots 1..L-1 and the missed
\* counters are as after step(), the head holds A, B or nothing and never C,
\* and from every belt each of the three head outcomes can be the result.
C13_RefillEffect ==
    [][last'.op = "step_with_random_item" =>
        /\ \A i \in DOMAIN slots \ {0} : slots'[i] = slots[i - 1]
        /\ missed_a' = missed_a + (IF TailBefore = A THEN 1 ELSE 0)
        /\ missed_b' = missed_b + (IF TailBefore = B THEN 1 ELSE 0)
        /\ slots'[0] \in {A, B, None}]_vars

C13_EveryHeadPossible ==
    Arranged =>
        \A d \in {A, B, None} :
            ENABLED (NextUnit /\ last'.op = "step_with_random_item" /\ slots'[0] = d)

C13_RandomRefill == C13_RefillEffect /\ []C13_EveryHeadPossible

\* A refill moved a product from the head to the tail of a two-slot belt whose
\* tail held an A, and drew nothing for the head.
C13_Witness ==
    /\ last.op = "step_with_random_item"
    /\ BeltLength(slots) = 2
    /\ slots[0] = None
    /\ slots[1] = C
    /\ missed_a = 2


\* Scenario A of the specification, for the strategies the constructor accepts.
ScenarioA ==
    /\ num_worker_pairs = 0
    /\ belt_length = 1
    /\ strategy_name \in {"individual", "team"}

HeadIs(x) == IF slots[0] = x THEN 1 ELSE 0

\* C14 Scenario A: with belt length 1 and no workers every component drawn
\* falls off on the next tick: missed_a (missed_b) is the number of A (B)
\* draws except the latest draw, which is still in the only slot; after N
\* ticks there were N draws, and the run goes on to its end without error.
C14_ScenarioA ==
    ScenarioA =>
        /\ status \in {"constructed", "running", "done"}
        /\ status # "constructed" =>
            /\ draws > 0 => missed_a = drawn_a - HeadIs(A)
            /\ draws > 0 => missed_b = drawn_b - HeadIs(B)
            /\ draws = 0 => missed_a = 0 /\ missed_b = 0
            /\ draws = (IF pc = FirstPhase THEN tick ELSE tick + 1)
        /\ status = "running" => ENABLED NextSim
        /\ status = "done" => draws = (IF steps > 0 THEN steps ELSE 0)

\* A run of three ticks ended: the A and the B of the first two ticks were
\* missed, the A of the third tick is in the slot.
C14_Witness ==
    /\ ScenarioA
    /\ status = "done"
    /\ steps = 3
    /\ drawn_a = 2
    /\ missed_a = 1
    /\ missed_b = 1
    /\ slots[0] = A


\* C15 Pickup: worker.pickup(item) puts the item into hand_left when that is
\* empty, otherwise into hand_right when that is empty, and leaves the other
\* hand as it was; with both hands occupied it raises and changes no hand, in
\* every case the timer and products_made are unchanged.
C15_Pickup ==
    [][last'.op = "pickup" =>
        LET before == workers[0]
            after == workers'[0]
        IN  /\ after.assembling_time_left = before.assembling_time_left
            /\ after.products_made = before.products_made
            /\ before.hand_left = None =>
                /\ last'.raised = "none"
                /\ after.hand_left = last'.item
                /\ after.hand_right = before.hand_right
            /\ before.hand_left # None /\ before.hand_right = None =>
                /\ last'.raised = "none"
                /\ after.hand_left = before.hand_left
                /\ after.hand_right = last'.item
            /\ before.hand_left # None /\ before.hand_right # None =>
                /\ last'.raised = "Exception"
                /\ after = before]_vars

\* A pickup of B by a worker holding A in the left hand only: B is in the
\* right hand.
C15_Witness ==
    /\ last.op = "pickup"
    /\ last.item = B
    /\ last.raised = "none"
    /\ workers[0].hand_left = A
    /\ workers[0].hand_right = B

\* A pickup with both hands occupied raised.
C15_WitnessRaise ==
    /\ last.op = "pickup"
    /\ last.raised = "Exception"
    /\ workers[0].hand_left = C
    /\ workers[0].hand_right = A

\* C16 Start of assembly: start_assembly() sets the timer to assembly_time
\* exactly when the hands hold one A and one B in either order and the timer
\* is not running; in every other state the timer keeps its value, so a
\* running timer is never restarted; hands and products_made never change.
C16_StartAssembly ==
    [][last'.op = "start_assembly" =>
        LET before == workers[0]
            after == workers'[0]
            ready == /\ {before.hand_left, before.hand_right} = {A, B}
                     /\ before.assembling_time_left = 0
        IN  /\ after.hand_left = before.hand_left
            /\ after.hand_right = before.hand_right
            /\ after.products_made = before.products_made
            /\ ready <=> last'.did = "start_assembly"
            /\ ready => after.assembling_time_left = assembly_time
            /\ ~ready => after.assembling_time_left = before.assembling_time_left]_vars

\* A worker holding B and A started: the timer is assembly_time.
C16_Witness ==
    /\ last.op = "start_assembly"
    /\ last.did = "start_assembly"
    /\ workers[0].hand_left = B
    /\ workers[0].hand_right = A
    /\ assembly_time = 2
    /\ workers[0].assembling_time_left = 2

\* start_assembly() on a worker holding A and B whose timer was running at 1
\* of 2 left the timer alone.
C16_WitnessRunning ==
    /\ last.op = "start_assembly"
    /\ last.did = "none"
    /\ {workers[0].hand_left, workers[0].hand_right} = {A, B}
    /\ assembly_time = 2
    /\ workers[0].assembling_time_left = 1

\* C17 Placing: place_product() empties the left hand when it holds C, else
\* the right hand when that holds C, leaves the other hand, the timer and
\* products_made unchanged and returns C; with no C in hand it returns none
\* and changes nothing.
C17_PlaceProduct ==
    [][last'.op = "place_product" =>
        LET before == workers[0]
            after == workers'[0]
        IN  IF before.hand_left = C
            THEN after = [before EXCEPT !.hand_left = None] /\ last'.ret = C
            ELSE IF before.hand_right = C
            THEN after = [before EXCEPT !.hand_right = None] /\ last'.ret = C
            ELSE after = before /\ last'.ret = None]_vars

\* A product was placed from the left hand and the right hand still holds one.
C17_Witness ==
    /\ last.op = "place_product"
    /\ last.ret = C
    /\ workers[0].hand_left = None
    /\ workers[0].hand_right = C


\* Slots that hold nothing before the call.
EmptySlots == {i \in DOMAIN slots : slots[i] = None}

FirstEmptySlot == CHOOSE i \in EmptySlots : \A j \in EmptySlots : i <= j

\* C18 as the specification states it: under the Individual strategy a product
\* is placed only into the worker's own station slot and only when that slot
\* is empty; with the station slot occupied the call places nothing.
C18_PlacesOnlyAtStation ==
    [][last'.op = "act" =>
        /\ last'.did = "place_product" =>
            /\ slots[last'.station] = None
            /\ slots' = [slots EXCEPT ![last'.station] = C]
        /\ slots[last'.station] # None => last'.did # "place_product"]_vars

\* C18 amended: under the Individual strategy a worker holding a product places
\* it into the first empty slot of the belt, whatever its station index, and
\* writes into no other slot; when no slot is empty the call places nothing
\* and no slot receives a product.
C18_PlacesAtFirstEmpty ==
    [][last'.op = "act" =>
        LET holding == C \in {workers[0].hand_left, workers[0].hand_right}
        IN  /\ last'.did = "place_product" <=> holding /\ EmptySlots # {}
            /\ last'.did = "place_product" => slots' = [slots EXCEPT ![FirstEmptySlot] = C]
            /\ last'.did # "place_product" => \A i \in DOMAIN slots : slots'[i] = C => slots[i] = C]_vars

\* A worker of station 1 placed its product into slot 0 while slot 1 held an A.
C18_Witness ==
    /\ last.op = "act"
    /\ last.did = "place_product"
    /\ last.station = 1
    /\ slots[0] = C
    /\ slots[1] = A

\* C19 Individual pickup: a worker that is not assembling, holds no product,
\* cannot assemble, has a free hand and finds at its station slot a component
\* it does not hold picks that component up: it goes into the first free hand,
\* the station slot becomes empty and nothing else changes; no call takes a
\* component from a slot other than the station slot.
C19_PicksUpAtStation ==
    [][last'.op = "act" =>
        LET before == workers[0]
            after == workers'[0]
            st == last'.station
            hands == {before.hand_left, before.hand_right}
            applies == /\ before.assembling_time_left = 0
                       /\ C \notin hands
                       /\ hands # {A, B}
                       /\ None \in hands
                       /\ slots[st] \in {A, B} \ hands
        IN  /\ applies =>
                /\ last'.did = "pickup"
                /\ last'.raised = "none"
                /\ after = (IF before.hand_left = None
                            THEN [before EXCEPT !.hand_left = slots[st]]
                            ELSE [before EXCEPT !.hand_right = slots[st]])
                /\ slots' = [slots EXCEPT ![st] = None]
                /\ workers'[1] = workers[1]
                /\ missed_a' = missed_a
                /\ missed_b' = missed_b
            /\ \A i \in DOMAIN slots \ {st} : slots[i] \in {A, B} => slots'[i] = slots[i]
            /\ last'.did = "pickup" => slots[st] \in {A, B} /\ slots'[st] = None]_vars

\* A worker of station 1 holding A took the B of slot 1 into its right hand and
\* left the B of slot 0.
C19_Witness ==
    /\ last.op = "act"
    /\ last.did = "pickup"
    /\ last.station = 1
    /\ workers[0].hand_left = A
    /\ workers[0].hand_right = B
    /\ slots[0] = B
    /\ slots[1] = None

\* C20 One action per call: IndividualStrategy.act on a worker that is not
\* assembling commits the first applicable of: place a product (a product in
\* hand and an empty slot), start assembly (hands hold A and B), pick up (a
\* free hand and a component the worker does not hold at the station slot);
\* the effect is that of this one action alone, and nothing changes when none
\* applies.
C20_OneActionPerCall ==
    [][last'.op = "act" /\ workers[0].assembling_time_left = 0 =>
        LET before == workers[0]
            after == workers'[0]
            st == last'.station
            hands == {before.hand_left, before.hand_right}
            can_place == C \in hands /\ EmptySlots # {}
            can_start == hands = {A, B}
            can_pick == None \in hands /\ slots[st] \in {A, B} \ hands
            hand_emptied == IF before.hand_left = C THEN [before EXCEPT !.hand_left = None]
                            ELSE [before EXCEPT !.hand_right = None]
            hand_filled == IF before.hand_left = None THEN [before EXCEPT !.hand_left = slots[st]]
                           ELSE [before EXCEPT !.hand_right = slots[st]]
        IN  /\ last'.raised = "none"
            /\ workers'[1] = workers[1]
            /\ missed_a' = missed_a /\ missed_b' = missed_b
            /\ last'.did = (IF can_place THEN "place_product"
                            ELSE IF can_start THEN "start_assembly"
                            ELSE IF can_pick THEN "pickup" ELSE "none")
            /\ last'.did = "place_product" =>
                /\ after = hand_emptied
                /\ \E i \in EmptySlots : slots' = [slots EXCEPT ![i] = C]
            /\ last'.did = "start_assembly" =>
                /\ after = [before EXCEPT !.assembling_time_left = assembly_time]
                /\ slots' = slots
            /\ last'.did = "pickup" =>
                /\ after = hand_filled
                /\ slots' = [slots EXCEPT ![st] = None]
            /\ last'.did = "none" => after = before /\ slots' = slots]_vars

\* A worker of station 1 placed its product into slot 0 and, though both hands
\* are now free, did not take the A at its station in the same call.
C20_Witness ==
    /\ last.op = "act"
    /\ last.did = "place_product"
    /\ last.station = 1
    /\ workers[0].hand_left = None
    /\ workers[0].hand_right = None
    /\ workers[0].assembling_time_left = 0
    /\ slots[0] = C
    /\ slots[1] = A


\* C21 Team priority constants: the action _get_best_action returns was scored
\* 100 when it places a product, 90 when it starts assembly, 80 when it gives
\* a component to the partner, and 70 when it picks up a component at the
\* worker's own station slot (75 when the worker itself needs the component).
C21_PriorityConstants ==
    last.op = "_get_best_action" =>
        /\ last.ret.type = "place_product" => last.ret.score = 100
        /\ last.ret.type = "start_assembly" => last.ret.score = 90
        /\ last.ret.type = "give_component" => last.ret.score = 80
        /\ last.ret.type = "pickup" /\ last.ret.slot = last.station => last.ret.score \in {70, 75}


\* The slot a Team pickup goes to, by the ranking of C22: candidates are the
\* slots holding a component the worker or the partner needs; the nearer to
\* the station and the worker's own need rank higher (5 points per slot of
\* distance, 5 points for own need), the lowest index wins among equals.
TeamNeeds(w, x) ==
    /\ w.assembling_time_left = 0
    /\ None \in {w.hand_left, w.hand_right}
    /\ x \in {A, B} \ {w.hand_left, w.hand_right}
    /\ C \notin {w.hand_left, w.hand_right}

PickupRank(w, st, s) == (IF TeamNeeds(w, slots[s]) THEN 5 ELSE 0) - 5 * Abs(st - s)

PickupCandidates(w, p) ==
    {s \in DOMAIN slots : slots[s] \in {A, B} /\ (TeamNeeds(w, slots[s]) \/ TeamNeeds(p, slots[s]))}

BestPickupSlot(w, p, st) ==
    CHOOSE s \in PickupCandidates(w, p) :
        \A t \in PickupCandidates(w, p) :
            \/ PickupRank(w, st, t) < PickupRank(w, st, s)
            \/ PickupRank(w, st, t) = PickupRank(w, st, s) /\ s <= t

\* The effect C22 requires of a TeamStrategy.act call on worker i, partner p,
\* station st: the single highest ranked eligible action of place product >
\* start assembly > give to partner > pick up, and no change without one.
TeamActAsRanked(i, p, st) ==
    LET w == workers[i]
        q == workers[p]
        hands == {w.hand_left, w.hand_right}
        idle == w.assembling_time_left = 0
        can_place == C \in hands /\ EmptySlots # {}
        can_start == idle /\ hands = {A, B}
        can_give == /\ w.hand_left # None /\ w.hand_left = w.hand_right
                    /\ None \in {q.hand_left, q.hand_right}
                    /\ TeamNeeds(q, w.hand_right)
        can_pick == None \in hands /\ PickupCandidates(w, q) # {}
        s == BestPickupSlot(w, q, st)
    IN  IF can_place
        THEN /\ workers' = [workers EXCEPT ![i] = IF w.hand_left = C THEN [w EXCEPT !.hand_left = None]
                                                    ELSE [w EXCEPT !.hand_right = None]]
             /\ slots' = [slots EXCEPT ![FirstEmptySlot] = C]
        ELSE IF can_start
        THEN /\ workers' = [workers EXCEPT ![i] = [w EXCEPT !.assembling_time_left = assembly_time]]
             /\ slots' = slots
        ELSE IF can_give
        THEN /\ workers' = [workers EXCEPT
                               ![i] = [w EXCEPT !.hand_right = None],
                               ![p] = IF q.hand_left = None THEN [q EXCEPT !.hand_left = w.hand_right]
                                      ELSE [q EXCEPT !.hand_right = w.hand_right]]
             /\ slots' = slots
        ELSE IF can_pick
        THEN /\ workers' = [workers EXCEPT ![i] = IF w.hand_left = None THEN [w EXCEPT !.hand_left = slots[s]]
                                                    ELSE [w EXCEPT !.hand_right = slots[s]]]
             /\ slots' = [slots EXCEPT ![s] = None]
        ELSE workers' = workers /\ slots' = slots

\* C22 Team decision: each call of TeamStrategy.act commits exactly the
\* highest ranked eligible action (place product > start assembly > give to
\* partner > pick up, pickups by nearness and own need, first enumerated among
\* equals), raises nothing, and changes nothing when no action is eligible.
C22_TeamActAsRanked ==
    [][last'.op = "act" /\ strategy_name = "team" =>
        /\ last'.raised = "none"
        /\ TeamActAsRanked(last'.w, partner_idx(last'.w), last'.station)]_vars

\* The same for calls on a worker whose assembly timer is not running.
C22_WhenNotAssembling ==
    [][last'.op = "act" /\ strategy_name = "team" /\ workers[last'.w].assembling_time_left = 0 =>
        /\ last'.raised = "none"
        /\ TeamActAsRanked(last'.w, partner_idx(last'.w), last'.station)]_vars


\* Worker w holds the component x in its left hand and nothing else, and its
\* assembly timer is off.
HoldsOnly(w, x) ==
    /\ w.hand_left = x
    /\ w.hand_right = None
    /\ w.assembling_time_left = 0

\* C23 Pass to partner: a TeamStrategy.act call on a worker holding exactly one
\* component, with a partner holding only the complementary component and an
\* empty belt, hands the component over: afterwards the worker's hands are
\* empty and the partner holds its own component left and the given one right.
C23_PassToPartner ==
    [][\A x \in {A, B} :
        LET y == IF x = A THEN B ELSE A
            i == last'.w
            p == partner_idx(i)
        IN  /\ last'.op = "act"
            /\ strategy_name = "team"
            /\ HoldsOnly(workers[i], x)
            /\ HoldsOnly(workers[p], y)
            /\ EmptySlots = DOMAIN slots
            => /\ workers'[i].hand_left = None
               /\ workers'[i].hand_right = None
               /\ workers'[p].hand_left = y
               /\ workers'[p].hand_right = x]_vars


ChangedWorkers == {i \in WorkerIds : workers'[i] # workers[i]}

ChangedSlots == {s \in DOMAIN slots : slots'[s] # slots[s]}

HandsOf(w) == {w.hand_left, w.hand_right}

HiveCanPlace(w) == w.assembling_time_left = 0 /\ C \in HandsOf(w) /\ EmptySlots # {}

HiveCanStart(w) == w.assembling_time_left = 0 /\ HandsOf(w) = {A, B}

\* C24 One global action: hive_act commits one action for the whole roster, a
\* placement when any worker can place a product, else a start of assembly
\* when any worker can start, else a lower ranked action or none; only the
\* acting worker (and the partner receiving a given component) and at most one
\* belt slot change, whatever the other workers could have done.
C24_OneGlobalAction ==
    [][last'.op = "hive_act" =>
        LET i == last'.w
            before == workers[i]
            after == workers'[i]
        IN  /\ ChangedWorkers \subseteq (IF last'.did = "give_component" THEN {i, partner_idx(i)} ELSE {i})
            /\ Cardinality(ChangedSlots) <= 1
            /\ (\E j \in WorkerIds : HiveCanPlace(workers[j])) =>
                /\ last'.did = "place_product"
                /\ HiveCanPlace(before)
                /\ after = (IF before.hand_left = C THEN [before EXCEPT !.hand_left = None]
                            ELSE [before EXCEPT !.hand_right = None])
                /\ \E s \in EmptySlots : slots' = [slots EXCEPT ![s] = C]
            /\ (\A j \in WorkerIds : ~HiveCanPlace(workers[j])) =>
                /\ last'.did # "place_product"
                /\ (\E j \in WorkerIds : HiveCanStart(workers[j])) =>
                    /\ last'.did = "start_assembly"
                    /\ HiveCanStart(before)
                    /\ after = [before EXCEPT !.assembling_time_left = assembly_time]
                    /\ slots' = slots
                /\ (\A j \in WorkerIds : ~HiveCanStart(workers[j])) =>
                    /\ last'.did \in {"give_component", "pickup", "none"}
                    /\ last'.did = "none" => workers' = workers /\ slots' = slots
                    /\ last'.did = "give_component" => slots' = slots
                    /\ last'.did = "pickup" =>
                        \E s \in DOMAIN slots :
                            /\ slots[s] \in {A, B}
                            /\ slots' = [slots EXCEPT ![s] = None]
                            /\ after = (IF before.hand_left = None
                                        THEN [before EXCEPT !.hand_left = slots[s]]
                                        ELSE [before EXCEPT !.hand_right = slots[s]])]_vars

\* Worker 2 placed its product into slot 0; worker 0, empty-handed at the
\* station of slot 0 and needing the A of slot 1, stayed as it was.
C24_Witness ==
    /\ last.op = "hive_act"
    /\ last.did = "place_product"
    /\ last.w = 2
    /\ workers[0] = NewWorker
    /\ workers[2] = NewWorker
    /\ slots[0] = C
    /\ slots[1] = A

\* Worker 1 started assembling; worker 0, empty-handed, left the A of slot 0.
C24_WitnessAssemble ==
    /\ last.op = "hive_act"
    /\ last.did = "start_assembly"
    /\ last.w = 1
    /\ workers[1].assembling_time_left = assembly_time
    /\ workers[0] = NewWorker
    /\ slots[0] = A


\* The results strategy.act can have for worker w in the current state, one
\* for each order in which needs() can list the needed components.
ActResults(w) == StrategyOutcomes(workers, w, ListOfBelts(<<slots>>))

\* C25 Determinism: the configuration and the refill draws determine a run:
\* in every state each strategy call has exactly one result (workers, belt,
\* exception), whatever order needs() lists the components in, so the draw of
\* the refill is the only choice a run leaves open.
C25_Determinism ==
    \A w \in WorkerIds :
        \A o1 \in ActResults(w), o2 \in ActResults(w) :
            /\ o1.workers = o2.workers
            /\ o1.belts = o2.belts
            /\ o1.raised = o2.raised

\* An Individual worker that needed both components, so that needs() had two
\* possible orders, picked up the A at its station.
C25_Witness ==
    /\ strategy_name = "individual"
    /\ last.op = "act"
    /\ last.did = "pickup"
    /\ workers[last.w].hand_left = A
    /\ workers[last.w].hand_right = None
    /\ OnBelt(B) > 0


\* Scenario B of the specification: one pair, belt of 2, assembly_time 1,
\* Individual strategy, a run of 3 ticks.
ScenarioB ==
    /\ num_worker_pairs = 1
    /\ belt_length = 2
    /\ assembly_time = 1
    /\ strategy_name = "individual"
    /\ status # "new"

EndOfTick(n) == status \in {"running", "done"} /\ pc = FirstPhase /\ tick = n /\ draws = n

\* C26 Scenario B, as far as the first two ticks go: the run raises nothing;
\* when the feed is A then B, worker 0 holds A at the end of tick 1 and A and B
\* at the end of tick 2.
C26_Milestones ==
    ScenarioB =>
        /\ status \in {"constructed", "running", "done"}
        /\ EndOfTick(1) /\ drawn_a = 1 => workers[0].hand_left = A
        /\ EndOfTick(2) /\ drawn_a = 1 /\ drawn_b = 1 => HandsOf(workers[0]) = {A, B}

\* C26 Scenario B, third tick: worker 0, holding A and B when its turn comes in
\* tick 3, has made one product when that turn is over.
C26_Assembles ==
    /\ ScenarioB
    /\ status = "running"
    /\ tick = 2
    /\ last'.op = "act"
    /\ last'.w = 0
    /\ HandsOf(workers[0]) = {A, B}
    /\ workers[0].products_made = 0
    => workers'[0].products_made = 1

\* C26 Scenario B: one pair, belt of 2, assembly_time 1, Individual strategy,
\* feed A then B: the worker picks up A in tick 1, B in tick 2, assembles in
\* tick 3, and products_made = 1 at the end of the third tick.
C26_ScenarioB == []C26_Milestones /\ [][C26_Assembles]_vars



NoDuplicates(s) == \A i, j \in DOMAIN s : i # j => s[i] # s[j]

\* C27: once every thread has been stopped and joined, the items_produced of the producers
\* add up to the items_consumed of the consumers plus len(belt), and the items taken together
\* with the items left are pairwise distinct serials handed out: none lost, none taken twice.
C27_ItemIntegrity ==
    AllJoined =>
        /\ SumOver(items_produced, Producers) = SumOver(items_consumed, Consumers) + Len(items)
        /\ SumOver(items_consumed, Consumers) = Len(taken)
        /\ NoDuplicates(taken \o items)
        /\ \A i \in DOMAIN (taken \o items) : (taken \o items)[i] \in 1..item_serial_counter

\* all threads joined, every producer having produced, an item taken and an item left
C27_Witness ==
    /\ AllJoined
    /\ AllStopped
    /\ Len(taken) >= 1
    /\ Len(items) >= 1
    /\ \A p \in Producers : items_produced[p] >= 1

\* C28: at all times 0 <= len(items) <= capacity, the permits of filled_slots never exceed
\* the items present and the permits of empty_slots plus the items never exceed capacity; a
\* thread about to append finds the belt not full, one about to pop finds it not empty.
C28_Bounds ==
    /\ Len(items) >= 0
    /\ Len(items) <= capacity
    /\ filled_slots >= 0
    /\ empty_slots >= 0
    /\ filled_slots <= Len(items)
    /\ empty_slots + Len(items) <= capacity
    /\ \A t \in Threads : thread_pc[t] = "put_append" => Len(items) < capacity
    /\ \A t \in Threads : thread_pc[t] = "take_popleft" => Len(items) > 0
    /\ \A t \in Threads : returned[t].raised = "none"

\* the belt is full with a producer waiting in put() while a consumer is about to pop
C28_Witness ==
    /\ Len(items) = capacity
    /\ \E p \in Producers : thread_pc[p] = "put_acquire"
    /\ \E c \in Consumers : thread_pc[c] = "take_popleft"

\* the belt is empty with both consumers waiting in take() while a producer is about to append
C28_WitnessEmpty ==
    /\ items = <<>>
    /\ \A c \in Consumers : thread_pc[c] = "take_acquire"
    /\ \E p \in Producers : thread_pc[p] = "put_append"


\* the step of thread t from one place of run() to another
Moves(t, from, to) == thread_pc[t] = from /\ thread_pc'[t] = to

\* C29, put: a put that times out found no empty slot, returns False and leaves items,
\* filled_slots and empty_slots alone; one that got its permit appends exactly its item and
\* returns True.
C29_PutStep(t) ==
    /\ Moves(t, "put_acquire", "loop") =>
           /\ empty_slots = 0
           /\ returned'[t] = Returned("put", FALSE, item_held[t], "none")
           /\ UNCHANGED <<items, filled_slots, empty_slots>>
    /\ Moves(t, "put_acquire", "put_lock") => empty_slots > 0
    /\ Moves(t, "put_append", "put_release") => items' = Append(items, item_held[t])
    /\ Moves(t, "put_release", "produced") =>
           /\ returned'[t] = Returned("put", TRUE, item_held[t], "none")
           /\ UNCHANGED items
           /\ \E i \in DOMAIN (taken \o items) : (taken \o items)[i] = item_held[t]

\* C29, take: a take that times out found no item, returns None and leaves everything alone;
\* one that got its permit removes exactly one item, the head, and returns it.
C29_TakeStep(t) ==
    /\ Moves(t, "take_acquire", "loop") =>
           /\ filled_slots = 0
           /\ returned'[t] = Returned("take", FALSE, 0, "none")
           /\ UNCHANGED <<items, filled_slots, empty_slots, taken>>
    /\ Moves(t, "take_acquire", "take_lock") => filled_slots > 0
    /\ thread_pc[t] = "take_popleft" /\ thread_pc'[t] # "take_popleft" =>
           /\ items # <<>>
           /\ items = <<item_held'[t]>> \o items'
           /\ thread_pc'[t] = "take_release"
    /\ Moves(t, "take_release", "consumed") =>
           /\ returned'[t] = Returned("take", TRUE, item_held[t], "none")
           /\ item_held[t] # 0
           /\ UNCHANGED items

\* C29: timeouts of put and take, in every step of every thread
C29_Timeouts == [][\A t \in Threads : C29_PutStep(t) /\ C29_TakeStep(t)]_vars

\* a producer's put has timed out on the full belt and a consumer's take on the empty one
C29_Witness ==
    /\ \E p \in Producers : returned[p] = Returned("put", FALSE, item_held[p], "none")
    /\ \E c \in Consumers : returned[c] = Returned("take", FALSE, 0, "none")
    /\ \E c \in Consumers : returned[c].op = "take" /\ returned[c].ok
    /\ \E p \in Producers : returned[p].op = "put" /\ returned[p].ok

\* C30: once stop() has been called on every Producer and Consumer, every thread's run loop
\* exits (join() returns), whatever the belt holds then: no thread stays parked in an acquire.
C30_Shutdown == AllStopped ~> AllJoined

\* every thread has exited after a producer timed out on the full belt, which stays full
C30_Witness ==
    /\ AllStopped
    /\ AllJoined
    /\ Len(items) = capacity
    /\ \E p \in Producers : returned[p] = Returned("put", FALSE, item_held[p], "none")

\* every thread has exited after a consumer timed out on the empty belt, which stays empty
C30_WitnessEmpty ==
    /\ AllStopped
    /\ AllJoined
    /\ items = <<>>
    /\ \E c \in Consumers : returned[c] = Returned("take", FALSE, 0, "none")

\* stop() has been called on every thread while one of them is parked in its acquire: a
\* producer on the full belt or a consumer on the empty one
C30_WitnessParked ==
    /\ AllStopped
    /\ \/ \E p \in Producers : thread_pc[p] = "put_acquire" /\ empty_slots = 0
       \/ \E c \in Consumers : thread_pc[c] = "take_acquire" /\ filled_slots = 0


\* the step calls made after call number j
StepsAfter(j) == Cardinality({i \in (j + 1)..Len(calls) : calls[i].op = "step"})

\* call number j pushed an item that the next call did not overwrite at the head
PushedAndKept(j) == calls[j].op = "push_item" /\ (j = Len(calls) \/ calls[j + 1].op = "step")

\* the pushed items that have left the belt
LeftBelt(item) ==
    Cardinality({j \in DOMAIN calls : PushedAndKept(j) /\ calls[j].item = item /\ StepsAfter(j) >= belt_length})

\* C31, transit: an item pushed and not overwritten is at index k after k step calls, for
\* every k < length; the length-th step returns it (None for a product) and counts it if it
\* is a component; the belt holds nothing but the items in transit.
C31_InTransit ==
    /\ \A j \in DOMAIN calls :
          PushedAndKept(j) =>
              /\ StepsAfter(j) < belt_length => slots[StepsAfter(j)] = calls[j].item
              /\ (StepsAfter(j) = belt_length /\ calls[Len(calls)].op = "step") =>
                     last.ret = IF calls[j].item = C THEN None ELSE calls[j].item
    /\ \A k \in DOMAIN slots :
          slots[k] # None => \E j \in DOMAIN calls : PushedAndKept(j) /\ StepsAfter(j) = k
    /\ missed_a = LeftBelt(A)
    /\ missed_b = LeftBelt(B)

\* C31, push_item: the call writes the head, whatever it held, and nothing else
C31_PushFrame ==
    last'.op = "push_item" =>
        /\ slots'[0] = last'.item
        /\ \A k \in DOMAIN slots : k # 0 => slots'[k] = slots[k]
        /\ DOMAIN slots' = DOMAIN slots
        /\ UNCHANGED <<missed_a, missed_b>>

\* C31 Belt transit
C31_Transit == []C31_InTransit /\ [][C31_PushFrame]_vars

\* the test's loop on a belt of 3: push, step, three times over, leaves the second item in
\* the last slot and the first one counted as missed
C31_Witness ==
    /\ belt_length = 3
    /\ calls = <<BeltCall("push_item", A), BeltCall("step", None), BeltCall("push_item", B),
                 BeltCall("step", None), BeltCall("push_item", C), BeltCall("step", None)>>
    /\ slots[2] = B
    /\ slots[1] = C
    /\ missed_a = 1


\* C32 (as claimed): for an accepted configuration with at least one worker pair no call of
\* run_step raises: the run is constructed, running or done, and the latest call raised nothing.
C32_RunStepNeverRaises ==
    (status \notin {"new", "ValueError"} /\ num_worker_pairs >= 1 /\ belt_length >= 1) =>
        /\ status \in {"constructed", "running", "done"}
        /\ last.raised = "none"


\* the number of hands of the pair w, p that hold x
PairHolds(ws, w, p, x) ==
    Cardinality({h \in {<<w, "l">>, <<w, "r">>, <<p, "l">>, <<p, "r">>} :
                    IF h[2] = "l" THEN ws[h[1]].hand_left = x ELSE ws[h[1]].hand_right = x})

\* C33: a TeamStrategy act call that commits a give found the worker holding the same
\* component in both hands and a partner with a free hand that needs it; it empties the
\* worker's right hand into the partner's first free hand and changes nothing else: the A's
\* and B's of the pair stay as many, the belt and the timers stay as they are.
C33_GiveStep ==
    (last'.op = "act" /\ last'.did = "give_component") =>
        LET w == last'.w
            p == partner_idx(w)
            x == workers[w].hand_right
        IN  /\ strategy_name = "team"
            /\ last'.raised = "none"
            /\ x \in {A, B}
            /\ workers[w].hand_left = x
            /\ ~is_full(workers[p])
            /\ needs_component(workers[p], x)
            /\ workers'[w] = [workers[w] EXCEPT !.hand_right = None]
            /\ workers'[p] = IF workers[p].hand_left = None
                             THEN [workers[p] EXCEPT !.hand_left = x]
                             ELSE [workers[p] EXCEPT !.hand_right = x]
            /\ \A y \in {A, B, C} : PairHolds(workers', w, p, y) = PairHolds(workers, w, p, y)
            /\ \A i \in DOMAIN workers :
                  workers'[i].assembling_time_left = workers[i].assembling_time_left
            /\ UNCHANGED <<slots, missed_a, missed_b>>

C33_WitnessEmptyHanded ==
    /\ last.op = "act"
    /\ last.did = "give_component"
    /\ workers[partner_idx(last.w)].hand_right = None


\* x was appended to the belt before y
AppendedBefore(x, y) ==
    \E i, j \in DOMAIN appended : i < j /\ appended[i] = x /\ appended[j] = y

\* C34 (as claimed): take returns the items in the order of their appends: when a take
\* returns y, no item appended before y is still to be returned.
C34_TakeReturnsInAppendOrder ==
    [][\A c \in Consumers :
          Moves(c, "take_release", "consumed") =>
              \A d \in Consumers \ {c} :
                  thread_pc[d] = "take_release" => ~AppendedBefore(item_held[d], item_held[c])]_vars

\* C34: the items leave the deque in the order of their appends: those popped so far,
\* followed by those on the belt, are the items appended, in that order; a thread returning
\* from take holds the item it popped.
C34_PopsInAppendOrder ==
    /\ taken \o items = appended
    /\ \A c \in Consumers :
          thread_pc[c] \in {"take_release", "consumed"} =>
              \E i \in DOMAIN taken : taken[i] = item_held[c]
    /\ \A c \in Consumers :
          thread_pc[c] = "consumed" => returned[c] = Returned("take", TRUE, item_held[c], "none")
    /\ (Len(appended) = 1 /\ Len(taken) = 1) => items = <<>>

\* two items queued on the belt, the later serial appended first, have both been taken
C34_Witness ==
    /\ appended = <<2, 1>>
    /\ taken = <<2, 1>>
    /\ items = <<>>
    /\ \E c \in Consumers : thread_pc[c] = "consumed" /\ item_held[c] = 1
    /\ \E c \in Consumers : returned[c] = Returned("take", TRUE, 2, "none")

\* two items were on the belt together
C34_WitnessQueued == Len(items) = 2 /\ taken = <<>> /\ appended = <<2, 1>>


C37_NeedsAgree ==
    \A i \in DOMAIN workers : \A x \in {A, B} :
        (x \in needs(workers[i])) <=> needs_component(workers[i], x)


\* the timer of every worker is within 0..assembly_time, and a running timer goes with
\* one A and one B in the two hands
C38_Assembling ==
    \A i \in DOMAIN workers :
        /\ workers[i].assembling_time_left >= 0
        /\ workers[i].assembling_time_left <= assembly_time
        /\ is_assembling(workers[i]) =>
              /\ {workers[i].hand_left, workers[i].hand_right} = {A, B}
              /\ ~is_holding_product(workers[i])
              /\ ~is_empty(workers[i]) /\ is_full(workers[i])

\* the hands of an assembling worker change only when its assembly finishes, and no give
\* goes to an assembling partner
C38_HandsStep ==
    /\ \A i \in DOMAIN workers :
          (is_assembling(workers[i]) /\ is_assembling(workers'[i])) =>
              /\ workers'[i].hand_left = workers[i].hand_left
              /\ workers'[i].hand_right = workers[i].hand_right
    /\ (last'.op = "act" /\ last'.did = "give_component") =>
          /\ ~is_assembling(workers[partner_idx(last'.w)])
          /\ ~is_assembling(workers'[partner_idx(last'.w)])

\* C38: in every state of a run under Individual or Team with assembly_time >= 1 every
\* timer is within 0..assembly_time, a worker with a running timer holds exactly one A and
\* one B (no C, no empty hand), and an assembling worker receives nothing from its partner.
C38_AssemblingWorker == []C38_Assembling /\ [][C38_HandsStep]_vars

\* under Team a worker is assembling while its partner, that has just acted, holds the
\* same component in both hands
C38_Witness ==
    /\ strategy_name = "team"
    /\ last.op = "act"
    /\ is_assembling(workers[partner_idx(last.w)])
    /\ workers[last.w].hand_left \in {A, B}
    /\ workers[last.w].hand_left = workers[last.w].hand_right


\* the last index of the belt
Tail39 == belt_length - 1

\* C39, a call that is not a belt step: a product on the belt stays where it is (no pickup,
\* no placement over it), and a product appears only in a slot that was empty, by a
\* placement
C39_WorkerStep ==
    last'.op # "step_with_random_item" =>
        \A i \in DOMAIN slots :
            /\ slots[i] = C => slots'[i] = C
            /\ (slots'[i] = C /\ slots[i] # C) =>
                  /\ slots[i] = None
                  /\ last'.op = "act"
                  /\ last'.did = "place_product"
                  /\ \A j \in DOMAIN slots : j # i => slots'[j] = slots[j]

\* C39, a belt step: every product advances one slot, the refill writes no product and
\* only into the head that the shift has left empty, and a product leaving at the tail
\* changes neither missed_a nor missed_b
C39_BeltStep ==
    last'.op = "step_with_random_item" =>
        /\ \A i \in DOMAIN slots : (slots[i] = C /\ i < Tail39) => slots'[i + 1] = C
        /\ \A i \in DOMAIN slots : slots'[i] = C => (i > 0 /\ slots[i - 1] = C)
        /\ slots[Tail39] = C => (missed_a' = missed_a /\ missed_b' = missed_b)

\* C39: a product appears on the belt only by a placement into an empty slot; once there
\* it is never picked up or overwritten, advances one slot per belt step and leaves at the
\* tail without a change of missed_a or missed_b.
C39_ProductsOnBelt == [][C39_WorkerStep /\ C39_BeltStep]_vars

\* a placed product has been carried to the tail by a belt step, beside a component
C39_Witness ==
    /\ last.op = "step_with_random_item"
    /\ slots[Tail39] = C
    /\ slots[0] \in {A, B}


\* C40 (as claimed): IndividualStrategy.act is a function of the worker, the list of belts
\* and the station: the hands and the belts a call leaves are those that every iteration
\* order of needs() leads to.
C40_ActStep ==
    last'.op = "act" =>
        \A out \in BeltsActOutcomes(last'.station) :
            /\ workers' = out.workers
            /\ slots' = out.belts[1]
            /\ slots_b' = out.belts[2]

\* C40 act is deterministic
C40_ActDeterministic == [][C40_ActStep]_vars

====
